---------------------------- MODULE Spec2Model ----------------------------
(***************************************************************************)
(* Model of the Mermaid MCP app: the ChangeLog class, the App component    *)
(* (ui/src/App.tsx, found in src/ui/src/sync/changeLog.ts after the        *)
(* class), the InteractiveDiagram component and its text mutators          *)
(* (found in src/playwright.config.ts) and the diagram type detector      *)
(* (src/unnamed/part_000).                                                 *)
(*                                                                         *)
(* Source text is a sequence of one-character strings, so that the         *)
(* regular-expression surgery of the mutators is computed, not assumed.    *)
(***************************************************************************)
EXTENDS Integers, Sequences, FiniteSets, TLC

(***************************************************************************)
(* Bounds of the model.                                                    *)
(***************************************************************************)
\* longest change log the model lets ChangeLog.add build
MaxLog == 3
\* number of renderer invocations (values of renderCounter) explored
MaxRenders == 3
\* longest selection array explored
MaxSel == 3

(***************************************************************************)
(* Characters and strings.                                                 *)
(***************************************************************************)
UpperLetters == <<"A","B","C","D","E","F","G","H","I","J","K","L","M",
                  "N","O","P","Q","R","S","T","U","V","W","X","Y","Z">>
LowerLetters == <<"a","b","c","d","e","f","g","h","i","j","k","l","m",
                  "n","o","p","q","r","s","t","u","v","w","x","y","z">>
Digits == {"0","1","2","3","4","5","6","7","8","9"}

Range(s) == {s[i] : i \in DOMAIN s}

\* String.prototype.toLowerCase on one character
ToLower(c) ==
  IF c \in Range(UpperLetters)
  THEN LowerLetters[CHOOSE i \in DOMAIN UpperLetters : UpperLetters[i] = c]
  ELSE c

\* String.prototype.toUpperCase on one character
ToUpper(c) ==
  IF c \in Range(LowerLetters)
  THEN UpperLetters[CHOOSE i \in DOMAIN LowerLetters : LowerLetters[i] = c]
  ELSE c

LowerStr(s) == [i \in DOMAIN s |-> ToLower(s[i])]
UpperStr(s) == [i \in DOMAIN s |-> ToUpper(s[i])]

\* the regular-expression class \s (and the characters trim() strips)
IsWs(c) == c \in {" ", "\t", "\n", "\r"}
\* the regular-expression class \w
IsWordChar(c) == c \in Range(UpperLetters) \cup Range(LowerLetters) \cup Digits \cup {"_"}
\* the regular-expression class . (no line terminator)
IsDot(c) == c \notin {"\n", "\r"}

\* s.substring(i-1, j) with 1-based inclusive bounds; empty when j < i
Sub(s, i, j) == IF j < i THEN << >> ELSE SubSeq(s, i, j)

\* whether p occurs in s at (1-based) position i
StartsAt(s, i, p) ==
  /\ i >= 1
  /\ i + Len(p) - 1 <= Len(s)
  /\ \A k \in 1..Len(p) : s[i + k - 1] = p[k]

\* case-insensitive StartsAt (the i flag)
StartsAtCI(s, i, p) ==
  /\ i >= 1
  /\ i + Len(p) - 1 <= Len(s)
  /\ \A k \in 1..Len(p) : ToLower(s[i + k - 1]) = ToLower(p[k])

\* s.indexOf(p) from position i on, 1-based; 0 when absent
RECURSIVE IndexOfFrom(_, _, _)
IndexOfFrom(s, p, i) ==
  IF i + Len(p) - 1 > Len(s) THEN 0
  ELSE IF StartsAt(s, i, p) THEN i
  ELSE IndexOfFrom(s, p, i + 1)

IndexOf(s, p) == IndexOfFrom(s, p, 1)

\* first position >= i that holds no whitespace (Len(s)+1 when none): greedy \s*
RECURSIVE SkipWs(_, _)
SkipWs(s, i) ==
  IF i > Len(s) THEN Len(s) + 1
  ELSE IF IsWs(s[i]) THEN SkipWs(s, i + 1)
  ELSE i

\* last position <= j that holds no whitespace (0 when none)
RECURSIVE LastNonWs(_, _)
LastNonWs(s, j) ==
  IF j < 1 THEN 0
  ELSE IF IsWs(s[j]) THEN LastNonWs(s, j - 1)
  ELSE j

\* String.prototype.trim
Trim(s) == Sub(s, SkipWs(s, 1), LastNonWs(s, Len(s)))

\* String.prototype.split("\n"): the sequence of lines
RECURSIVE SplitFrom(_, _, _, _)
SplitFrom(s, start, k, acc) ==
  IF k > Len(s) THEN Append(acc, Sub(s, start, Len(s)))
  ELSE IF s[k] = "\n" THEN SplitFrom(s, k + 1, k + 1, Append(acc, Sub(s, start, k - 1)))
  ELSE SplitFrom(s, start, k + 1, acc)

SplitLines(s) == SplitFrom(s, 1, 1, << >>)

\* Array.prototype.join("\n")
RECURSIVE JoinLines(_)
JoinLines(ls) ==
  IF Len(ls) = 0 THEN << >>
  ELSE IF Len(ls) = 1 THEN ls[1]
  ELSE ls[1] \o <<"\n">> \o JoinLines(Tail(ls))

(***************************************************************************)
(* ChangeLog (src/ui/src/sync/changeLog.ts).                               *)
(***************************************************************************)
Rename(id, old, new) ==
  [type |-> "rename", nodeId |-> id, oldLabel |-> old, newLabel |-> new]
LayoutChange(old, new) ==
  [type |-> "layout-change", oldDirection |-> old, newDirection |-> new]

\* a plausible slip: every change is pushed, nothing is coalesced
ChangeLog_add_NoCoalesce(log, change) == Append(log, change)

\* a plausible slip: coalescing keeps the incoming "before" value
ChangeLog_add_KeepsIncomingOld(log, change) ==
  IF /\ Len(log) > 0
     /\ log[Len(log)].type = change.type
     /\ (change.type = "rename" => log[Len(log)].nodeId = change.nodeId)
  THEN [log EXCEPT ![Len(log)] = change]
  ELSE Append(log, change)

\* a plausible slip: renames coalesce whatever node they are about
ChangeLog_add_IgnoresNodeId(log, change) ==
  IF Len(log) > 0 /\ log[Len(log)].type = change.type
  THEN [log EXCEPT ![Len(log)] =
          IF change.type = "rename"
          THEN [change EXCEPT !.oldLabel = log[Len(log)].oldLabel]
          ELSE [change EXCEPT !.oldDirection = log[Len(log)].oldDirection]]
  ELSE Append(log, change)

\* ChangeLog.add: the log after add(change)
ChangeLog_add(log, change) ==
  IF /\ change.type = "rename"
     /\ Len(log) > 0
     /\ log[Len(log)].type = "rename"
     /\ log[Len(log)].nodeId = change.nodeId
  THEN [log EXCEPT ![Len(log)] = [change EXCEPT !.oldLabel = log[Len(log)].oldLabel]]
  ELSE IF /\ change.type = "layout-change"
          /\ Len(log) > 0
          /\ log[Len(log)].type = "layout-change"
  THEN [log EXCEPT ![Len(log)] =
          [change EXCEPT !.oldDirection = log[Len(log)].oldDirection]]
  ELSE Append(log, change)

\* one line of ChangeLog.serialize: the number and the sentence's parts
SerializeLine(c, i) ==
  IF c.type = "rename"
  THEN <<i, ".", "Renamed node", c.nodeId, "from", c.oldLabel, "to", c.newLabel>>
  ELSE <<i, ".", "Changed layout direction from", c.oldDirection, "to", c.newDirection>>

\* ChangeLog.serialize: the lines that join("\n") puts together
ChangeLog_serialize(log) == [i \in DOMAIN log |-> SerializeLine(log[i], i)]

\* a plausible slip: clear leaves the entries
ChangeLog_clear_Keeps(log) == log

\* ChangeLog.clear
ChangeLog_clear(log) == << >>

\* ChangeLog.count
ChangeLog_count(log) == Len(log)


(***************************************************************************)
(* Source Text Mutators (src/playwright.config.ts).                        *)
(***************************************************************************)
Min(S) == CHOOSE k \in S : \A m \in S : k <= m

\* DIRECTIONS
DIRECTIONS == << <<"T","D">>, <<"L","R">>, <<"R","L">>, <<"B","T">> >>
\* the direction tokens that the patterns of parseDirection/replaceDirection accept
DirectionTokens == << <<"T","D">>, <<"T","B">>, <<"L","R">>, <<"R","L">>, <<"B","T">> >>
\* the keywords of the direction patterns: (?:graph|flowchart)
GraphKeywords == << <<"g","r","a","p","h">>, <<"f","l","o","w","c","h","a","r","t">> >>

\* BRACKET_PAIRS, in the order replaceNodeLabel tries them
BRACKET_PAIRS ==
  << << <<"(","[">>, <<"]",")">> >>,
     << <<"[","[">>, <<"]","]">> >>,
     << <<"(","(">>, <<")",")">> >>,
     << <<"{","{">>, <<"}","}">> >>,
     << <<"{">>,     <<"}">> >>,
     << <<"[","/">>, <<"/","]">> >>,
     << <<"[","\\">>, <<"\\","]">> >>,
     << <<"[","/">>, <<"\\","]">> >>,
     << <<"[","\\">>, <<"/","]">> >>,
     << <<">">>,     <<"]">> >>,
     << <<"(">>,     <<")">> >>,
     << <<"[">>,     <<"]">> >> >>

\* the lazy group (.*?) or (.+?) opened at position cs (minLen 0 or 1): the
\* first position k at which one of `closes` matches with only non-newline
\* characters in between; 0 when there is none
RECURSIVE LazyScan(_, _, _, _)
LazyScan(code, k, closes, lo) ==
  IF k > Len(code) THEN 0
  ELSE IF k >= lo /\ \E c \in DOMAIN closes : StartsAt(code, k, closes[c]) THEN k
  ELSE IF IsDot(code[k]) THEN LazyScan(code, k + 1, closes, lo)
  ELSE 0

LazyEnd(code, cs, closes, minLen) == LazyScan(code, cs, closes, cs + minLen)

\* the first alternative of `alts` that matches at k (alternation order)
FirstAlt(code, k, alts) ==
  alts[Min({c \in DOMAIN alts : StartsAt(code, k, alts[c])})]

\* Strategy 1 for one bracket pair: new RegExp(`(${escapedId}\\s*)${escapedOpen}(.*?)${escapedClose}`)
\* the leftmost match: [at, open (position of the bracket), close (position of the closer)];
\* at = 0 when there is no match
BracketMatch(code, nodeId, open, close) ==
  LET starts == {i \in 1..Len(code) :
                   /\ StartsAt(code, i, nodeId)
                   /\ LET j == SkipWs(code, i + Len(nodeId))
                      IN  /\ StartsAt(code, j, open)
                          /\ LazyEnd(code, j + Len(open), <<close>>, 0) # 0}
  IN  IF starts = {} THEN [at |-> 0, open |-> 0, close |-> 0]
      ELSE LET i == Min(starts)
               j == SkipWs(code, i + Len(nodeId))
           IN  [at |-> i, open |-> j,
                close |-> LazyEnd(code, j + Len(open), <<close>>, 0)]

\* code.replace(regex, `$1${open}${newLabel}${close}`)
BracketReplace(code, m, open, close, newLabel) ==
  Sub(code, 1, m.open - 1) \o open \o newLabel \o close
    \o Sub(code, m.close + Len(close), Len(code))

\* Strategy 2: the permissive pattern's alternatives, in alternation order
FallbackOpens ==
  << <<"[","[">>, <<"(","[">>, <<"(","(">>, <<"{","{">>,
     <<"[">>, <<"(">>, <<"{">>, <<">">> >>
FallbackCloses ==
  << <<"]","]">>, <<"]",")">>, <<")",")">>, <<"}","}">>,
     <<"]">>, <<")">>, <<"}">> >>

\* the opening alternatives that lead to a match at bracket position j
FallbackOpensAt(code, j) ==
  {o \in DOMAIN FallbackOpens :
     /\ StartsAt(code, j, FallbackOpens[o])
     /\ LazyEnd(code, j + Len(FallbackOpens[o]), FallbackCloses, 1) # 0}

\* Strategy 2: the leftmost match of the permissive pattern (at = 0 when none)
FallbackMatch(code, nodeId) ==
  LET starts == {i \in 1..Len(code) :
                   /\ StartsAt(code, i, nodeId)
                   /\ FallbackOpensAt(code, SkipWs(code, i + Len(nodeId))) # {}}
  IN  IF starts = {} THEN [at |-> 0]
      ELSE LET i == Min(starts)
               j == SkipWs(code, i + Len(nodeId))
               o == FallbackOpens[Min(FallbackOpensAt(code, j))]
               k == LazyEnd(code, j + Len(o), FallbackCloses, 1)
           IN  [at |-> i, open |-> j, openTok |-> o, close |-> k,
                closeTok |-> FirstAlt(code, k, FallbackCloses)]

\* Strategy 3: new RegExp(`^(\\s*)(.*${escapedOld}.*)$`, "m"): the start of the
\* first line that holds oldLabel after its leading whitespace; 0 when none
LineMatchStart(code, oldLabel) ==
  LET lineStarts == {1} \cup {i + 1 : i \in {k \in 1..Len(code) : code[k] = "\n"}}
      contentStart(ls) == SkipWs(code, ls)
      lineEnd(p) == LET nls == {k \in p..Len(code) : code[k] = "\n"}
                    IN  IF nls = {} THEN Len(code) ELSE Min(nls) - 1
      ok == {ls \in lineStarts :
               LET p == contentStart(ls)
                   hit == IndexOfFrom(code, oldLabel, p)
               IN  /\ p <= Len(code) + 1
                   /\ hit # 0
                   /\ hit + Len(oldLabel) - 1 <= lineEnd(p)}
  IN  IF ok = {} THEN 0 ELSE Min(ok)

\* the index of the first pair of BRACKET_PAIRS whose pattern matches, 0 when none
FirstBracketPair(code, nodeId) ==
  LET hits == {b \in DOMAIN BRACKET_PAIRS :
                 BracketMatch(code, nodeId, BRACKET_PAIRS[b][1], BRACKET_PAIRS[b][2]).at # 0}
  IN  IF hits = {} THEN 0 ELSE Min(hits)

\* replaceNodeLabel
replaceNodeLabel(code, nodeId, oldLabel, newLabel) ==
  LET b == FirstBracketPair(code, nodeId)
  IN  IF b # 0
      THEN LET open == BRACKET_PAIRS[b][1]
               close == BRACKET_PAIRS[b][2]
           IN  BracketReplace(code, BracketMatch(code, nodeId, open, close),
                              open, close, newLabel)
      ELSE IF FallbackMatch(code, nodeId).at # 0
      THEN LET m == FallbackMatch(code, nodeId)
           IN  Sub(code, 1, m.open - 1) \o m.openTok \o newLabel \o m.closeTok
                 \o Sub(code, m.close + Len(m.closeTok), Len(code))
      ELSE IF oldLabel # << >> /\ LineMatchStart(code, oldLabel) # 0
      THEN LET p == SkipWs(code, LineMatchStart(code, oldLabel))
               hit == IndexOfFrom(code, oldLabel, p)
           IN  Sub(code, 1, hit - 1) \o newLabel
                 \o Sub(code, hit + Len(oldLabel), Len(code))
      ELSE code

\* code.replace(/pattern/g, ...) for a literal pattern: every occurrence, left to right
RECURSIVE ReplaceAll(_, _, _)
ReplaceAll(s, old, new) ==
  LET i == IndexOf(s, old)
  IN  IF i = 0 THEN s
      ELSE Sub(s, 1, i - 1) \o new \o ReplaceAll(Sub(s, i + Len(old), Len(s)), old, new)

\* Pattern 2 of replaceEdgeLabel: (--\s*)old(\s*-->), the leftmost match from position from
\* [at, label (position of old), tail (position after old), end]; at = 0 when none
DashMatchFrom(code, oldLabel, from) ==
  LET \* \s* is greedy and backtracks: old may itself begin after fewer blanks
      labelAt(i) == {p \in (i + 2)..SkipWs(code, i + 2) :
                       /\ StartsAt(code, p, oldLabel)
                       /\ \E q \in (p + Len(oldLabel))..SkipWs(code, p + Len(oldLabel)) :
                            StartsAt(code, q, <<"-","-",">">>)}
      starts == {i \in from..Len(code) :
                   StartsAt(code, i, <<"-","-">>) /\ labelAt(i) # {}}
  IN  IF starts = {} THEN [at |-> 0]
      ELSE LET i == Min(starts)
               \* greedy: the longest run of blanks that still lets the rest match
               p == CHOOSE p \in labelAt(i) : \A q \in labelAt(i) : q <= p
               t == p + Len(oldLabel)
               arrow == CHOOSE q \in t..SkipWs(code, t) :
                          /\ StartsAt(code, q, <<"-","-",">">>)
                          /\ \A r \in t..SkipWs(code, t) :
                               StartsAt(code, r, <<"-","-",">">>) => r <= q
           IN  [at |-> i, label |-> p, tail |-> t, end |-> arrow + 3]

RECURSIVE DashReplaceFrom(_, _, _, _)
DashReplaceFrom(code, oldLabel, newLabel, from) ==
  LET m == DashMatchFrom(code, oldLabel, from)
  IN  IF m.at = 0 THEN Sub(code, from, Len(code))
      ELSE Sub(code, from, m.label - 1) \o newLabel \o Sub(code, m.tail, m.end - 1)
             \o DashReplaceFrom(code, oldLabel, newLabel, m.end)

\* a plausible slip: the pipe pattern without its g flag
replaceEdgeLabel_FirstPipe(code, oldLabel, newLabel) ==
  IF oldLabel = << >> THEN code
  ELSE IF IndexOf(code, <<"|">> \o oldLabel \o <<"|">>) # 0
  THEN Sub(code, 1, IndexOf(code, <<"|">> \o oldLabel \o <<"|">>)) \o newLabel
         \o Sub(code, IndexOf(code, <<"|">> \o oldLabel \o <<"|">>) + Len(oldLabel) + 1, Len(code))
  ELSE code

\* replaceEdgeLabel
replaceEdgeLabel(code, oldLabel, newLabel) ==
  IF oldLabel = << >> THEN code
  ELSE IF IndexOf(code, <<"|">> \o oldLabel \o <<"|">>) # 0
  THEN ReplaceAll(code, <<"|">> \o oldLabel \o <<"|">>, <<"|">> \o newLabel \o <<"|">>)
  ELSE IF DashMatchFrom(code, oldLabel, 1).at # 0
  THEN DashReplaceFrom(code, oldLabel, newLabel, 1)
  ELSE IF IndexOf(code, oldLabel) # 0
  THEN Sub(code, 1, IndexOf(code, oldLabel) - 1) \o newLabel
         \o Sub(code, IndexOf(code, oldLabel) + Len(oldLabel), Len(code))
  ELSE code

\* /^(?:graph|flowchart)\s+(TD|TB|LR|RL|BT)\b/i on a trimmed line:
\* the position of the direction token, 0 when the line does not match
DirectionTokenFrom(line, n, p) ==
  IF /\ p > n + 1
     /\ \E d \in DOMAIN DirectionTokens : StartsAtCI(line, p, DirectionTokens[d])
     /\ (p + 2 > Len(line) \/ ~IsWordChar(line[p + 2]))
  THEN p ELSE 0

DirectionTokenAfter(line, n) == DirectionTokenFrom(line, n, SkipWs(line, n + 1))

DirectionTokenAt(line) ==
  IF StartsAtCI(line, 1, GraphKeywords[1])
  THEN DirectionTokenAfter(line, Len(GraphKeywords[1]))
  ELSE IF StartsAtCI(line, 1, GraphKeywords[2])
  THEN DirectionTokenAfter(line, Len(GraphKeywords[2]))
  ELSE 0

\* the scan that parseDirection and replaceDirection share: the index of the
\* first line that matches the declaration pattern, 0 when the scan stops first
RECURSIVE DirectionLine(_, _)
\* a plausible slip: the scan goes on behind a line that does not match
DirectionLineAt_KeepsScanning(lines, i, trimmed) ==
  IF DirectionTokenAt(trimmed) # 0 THEN i ELSE DirectionLine(lines, i + 1)

DirectionLineAt(lines, i, trimmed) ==
  IF StartsAt(trimmed, 1, <<"%","%">>) THEN DirectionLine(lines, i + 1)
  ELSE IF trimmed = <<"-","-","-">> THEN DirectionLine(lines, i + 1)
  ELSE IF DirectionTokenAt(trimmed) # 0 THEN i
  ELSE 0

DirectionLine(lines, i) ==
  IF i > Len(lines) THEN 0 ELSE DirectionLineAt(lines, i, Trim(lines[i]))

\* the null that parseDirection returns
NoDirection == << >>

\* parseDirection: the direction (TB read as TD), NoDirection when none
\* match[1].toUpperCase(), then dir === "TB" ? "TD" : dir
NormalDirection(dir) == IF dir = <<"T","B">> THEN <<"T","D">> ELSE dir

DirectionToken(trimmed, p) == NormalDirection(UpperStr(Sub(trimmed, p, p + 1)))

DirectionAtLine(trimmed) == DirectionToken(trimmed, DirectionTokenAt(trimmed))

DirectionOfLines(lines, i) ==
  IF i = 0 THEN NoDirection ELSE DirectionAtLine(Trim(lines[i]))

parseDirection(code) == DirectionOfLines(SplitLines(code), DirectionLine(SplitLines(code), 1))

\* a plausible slip: the new token is put in front of the old one
ReplaceDirectionAt_KeepsToken(line, newDir, s, p) ==
  IF p = 0 THEN line
  ELSE Sub(line, 1, s - 1 + p - 1) \o newDir \o Sub(line, s - 1 + p, Len(line))

\* lines[i].replace(/^(\s*(?:graph|flowchart)\s+)(?:TD|TB|LR|RL|BT)\b/i, `$1${newDir}`)
ReplaceDirectionAt(line, newDir, s, p) ==
  IF p = 0 THEN line
  ELSE Sub(line, 1, s - 1 + p - 1) \o newDir \o Sub(line, s - 1 + p + 2, Len(line))

ReplaceDirectionFrom(line, newDir, s) ==
  ReplaceDirectionAt(line, newDir, s, DirectionTokenAt(Sub(line, s, Len(line))))

\* a plausible slip: the token is replaced in the trimmed line
ReplaceDirectionInLine_Trimmed(line, newDir) == ReplaceDirectionFrom(Trim(line), newDir, 1)

ReplaceDirectionInLine(line, newDir) == ReplaceDirectionFrom(line, newDir, SkipWs(line, 1))

\* replaceDirection
ReplaceDirectionOfLine(code, newDir, lines, i) ==
  IF i = 0 THEN code
  ELSE JoinLines([lines EXCEPT ![i] = ReplaceDirectionInLine(lines[i], newDir)])

replaceDirection(code, newDir) ==
  ReplaceDirectionOfLine(code, newDir, SplitLines(code), DirectionLine(SplitLines(code), 1))

\* nextDirection
nextDirection(current) ==
  LET idx == CHOOSE i \in DOMAIN DIRECTIONS : DIRECTIONS[i] = current
  IN  DIRECTIONS[(idx % Len(DIRECTIONS)) + 1]


(***************************************************************************)
(* Diagram Type Classifier (src/unnamed/part_000, engine/detect).          *)
(***************************************************************************)
\* the keyword alternatives of typeMatch, in alternation order
TypeKeywords ==
  << <<"f","l","o","w","c","h","a","r","t">>,
     <<"g","r","a","p","h">>,
     <<"s","e","q","u","e","n","c","e","D","i","a","g","r","a","m">>,
     <<"c","l","a","s","s","D","i","a","g","r","a","m">>,
     <<"s","t","a","t","e","D","i","a","g","r","a","m">>,
     <<"e","r","D","i","a","g","r","a","m">>,
     <<"g","a","n","t","t">>,
     <<"p","i","e">>,
     <<"m","i","n","d","m","a","p">>,
     <<"t","i","m","e","l","i","n","e">>,
     <<"g","i","t","G","r","a","p","h">>,
     <<"j","o","u","r","n","e","y">>,
     <<"q","u","a","d","r","a","n","t","C","h","a","r","t">>,
     <<"s","a","n","k","e","y">>,
     <<"x","y","c","h","a","r","t">>,
     <<"b","l","o","c","k">>,
     <<"a","r","c","h","i","t","e","c","t","u","r","e">>,
     <<"p","a","c","k","e","t">>,
     <<"k","a","n","b","a","n">>,
     <<"r","e","q","u","i","r","e","m","e","n","t">>,
     <<"C","4","C","o","n","t","e","x","t">>,
     <<"C","4","C","o","n","t","a","i","n","e","r">>,
     <<"C","4","C","o","m","p","o","n","e","n","t">>,
     <<"C","4","D","y","n","a","m","i","c">>,
     <<"C","4","D","e","p","l","o","y","m","e","n","t">> >>

\* INTERACTIVE_TYPES
INTERACTIVE_TYPES ==
  { <<"f","l","o","w","c","h","a","r","t">>,
    <<"g","r","a","p","h">>,
    <<"s","t","a","t","e","D","i","a","g","r","a","m">>,
    <<"s","t","a","t","e","D","i","a","g","r","a","m","-","v","2">>,
    <<"c","l","a","s","s","D","i","a","g","r","a","m">>,
    <<"c","l","a","s","s","D","i","a","g","r","a","m","-","v","2">>,
    <<"e","r","D","i","a","g","r","a","m">>,
    <<"e","r">> }

FLOWCHART == <<"f","l","o","w","c","h","a","r","t">>
UNKNOWN == <<"u","n","k","n","o","w","n">>

\* the index of the line after the YAML front matter (1 when there is none)
RECURSIVE FrontMatterEnd(_, _)
FrontMatterEnd(lines, i) ==
  IF i <= Len(lines) /\ Trim(lines[i]) # <<"-","-","-">>
  THEN FrontMatterEnd(lines, i + 1)
  ELSE i + 1

\* the index of the first line at or after i that is no directive/comment line
RECURSIVE SkipDirectives(_, _)
SkipDirectives(lines, i) ==
  IF i <= Len(lines) /\ StartsAt(Trim(lines[i]), 1, <<"%","%">>)
  THEN SkipDirectives(lines, i + 1)
  ELSE i

\* firstLine.match(/^(flowchart|graph|...)\b/i): the alternatives that match
\* (the index of the first alternative, in alternation order, that matches
\* at the start of the line and ends at a word boundary; 0 when none)
RECURSIVE KeywordAt(_, _)
KeywordAt(firstLine, k) ==
  IF k > Len(TypeKeywords) THEN 0
  ELSE IF /\ StartsAtCI(firstLine, 1, TypeKeywords[k])
          /\ \/ Len(TypeKeywords[k]) + 1 > Len(firstLine)
             \/ ~IsWordChar(firstLine[Len(TypeKeywords[k]) + 1])
       THEN k
       ELSE KeywordAt(firstLine, k + 1)

\* a plausible slip: the synonym is handed back as it was written
NormalType_Raw(raw) == raw

\* raw.toLowerCase() === "graph" ? "flowchart" : raw
NormalType(raw) == IF LowerStr(raw) = <<"g","r","a","p","h">> THEN FLOWCHART ELSE raw

TypeOfMatch(firstLine, k) ==
  IF k = 0 THEN UNKNOWN ELSE NormalType(Sub(firstLine, 1, Len(TypeKeywords[k])))

TypeOfLine(firstLine) == TypeOfMatch(firstLine, KeywordAt(firstLine, 1))

TypeAt(lines, i) == IF i > Len(lines) THEN UNKNOWN ELSE TypeOfLine(Trim(lines[i]))

TypeOfLines(lines) ==
  TypeAt(lines, SkipDirectives(lines, IF Trim(lines[1]) = <<"-","-","-">>
                                      THEN FrontMatterEnd(lines, 2) ELSE 1))

\* detectDiagramType
detectDiagramType(code) == TypeOfLines(SplitLines(Trim(code)))

\* isInteractiveType
isInteractiveType(diagramType) == diagramType \in INTERACTIVE_TYPES


(***************************************************************************)
(* The renderer, mermaid.render(id, mermaidCode): an external collaborator *)
(* that the components only call.  It is modelled on a small flowchart     *)
(* grammar: a declaration line, then statements                            *)
(*    node ( "-->" [ "|" label "|" ] node )*                               *)
(* with node = id [ open label close ] for the pairs of BRACKET_PAIRS.     *)
(* It answers with the interactive elements of the SVG it would produce,   *)
(* or fails with a diagnostic.                                             *)
(***************************************************************************)
DigitChars == <<"0","1","2","3","4","5","6","7","8","9">>
\* the decimal digit of a small number
DigitOf(n) == <<DigitChars[n + 1]>>

ARROW == <<"-","-",">">>

\* first position >= p of `line` that holds no identifier character
RECURSIVE IdEnd(_, _)
IdEnd(line, p) ==
  IF p > Len(line) \/ ~IsWordChar(line[p]) THEN p ELSE IdEnd(line, p + 1)

\* the first pair of BRACKET_PAIRS, from index b on, that opens at position q
\* and closes later on the line; 0 when none does
RECURSIVE PairAt(_, _, _)
PairAt(line, q, b) ==
  IF b > Len(BRACKET_PAIRS) THEN 0
  ELSE IF /\ StartsAt(line, q, BRACKET_PAIRS[b][1])
          /\ LazyEnd(line, q + Len(BRACKET_PAIRS[b][1]), <<BRACKET_PAIRS[b][2]>>, 0) # 0
  THEN b
  ELSE PairAt(line, q, b + 1)

\* the node reference id open label close, the label ending before position k
BracketedNode(line, p, q, open, close, k) ==
  [ok |-> TRUE, id |-> Sub(line, p, q - 1),
   label |-> Trim(Sub(line, q + Len(open), k - 1)),
   labelled |-> TRUE, next |-> k + Len(close)]

\* the node reference whose id ends before position q, with bracket pair b
NodeRef(line, p, q, b) ==
  IF q = p
  THEN [ok |-> FALSE, id |-> << >>, label |-> << >>, labelled |-> FALSE, next |-> p]
  ELSE IF b = 0
  THEN [ok |-> q > Len(line) \/ line[q] \in {" ", "-"},
        id |-> Sub(line, p, q - 1), label |-> Sub(line, p, q - 1),
        labelled |-> FALSE, next |-> q]
  ELSE BracketedNode(line, p, q, BRACKET_PAIRS[b][1], BRACKET_PAIRS[b][2],
                     LazyEnd(line, q + Len(BRACKET_PAIRS[b][1]), <<BRACKET_PAIRS[b][2]>>, 0))

\* a node reference at position p: [ok, id, label, labelled, next]
ParseNode(line, p) == NodeRef(line, p, IdEnd(line, p), PairAt(line, IdEnd(line, p), 1))

\* acc with node reference n and, after a link from prev, the edge to it
WithNode(acc, prev, n) ==
  [acc EXCEPT
     !.nodes = Append(@, [id |-> n.id, label |-> n.label, labelled |-> n.labelled]),
     !.edges = IF prev.id = << >> THEN @
               ELSE Append(@, [from |-> prev.id, to |-> n.id, label |-> prev.label])]

\* the statements of one line from position p on: [ok, nodes, edges]; an edge
\* is [from, to, label].  ChainFrom: after node reference n; ChainLink: at
\* position a after it; ChainLabel: a link label that ends at position e
RECURSIVE ParseChain(_, _, _, _)
RECURSIVE ChainFrom(_, _, _, _)
RECURSIVE ChainLink(_, _, _, _)
RECURSIVE ChainLabel(_, _, _, _, _)
ChainLabel(line, id, acc, a, e) ==
  IF e = 0 THEN [acc EXCEPT !.ok = FALSE]
  ELSE ParseChain(line, SkipWs(line, e + 1),
                  [id |-> id, label |-> Trim(Sub(line, a + 4, e - 1))], acc)

ChainLink(line, id, acc, a) ==
  IF a > Len(line) THEN acc
  ELSE IF ~StartsAt(line, a, ARROW) THEN [acc EXCEPT !.ok = FALSE]
  ELSE IF StartsAt(line, a + 3, <<"|">>)
  THEN ChainLabel(line, id, acc, a, IndexOfFrom(line, <<"|">>, a + 4))
  ELSE ParseChain(line, SkipWs(line, a + 3), [id |-> id, label |-> << >>], acc)

ChainFrom(line, prev, acc, n) ==
  IF ~n.ok THEN [acc EXCEPT !.ok = FALSE]
  ELSE ChainLink(line, n.id, WithNode(acc, prev, n), SkipWs(line, n.next))

ParseChain(line, p, prev, acc) == ChainFrom(line, prev, acc, ParseNode(line, p))

\* the statements of the lines from index i on
RECURSIVE ParseBody(_, _, _)
ParseBody(lines, i, acc) ==
  IF i > Len(lines) \/ ~acc.ok THEN acc
  ELSE IF Trim(lines[i]) = << >> \/ StartsAt(Trim(lines[i]), 1, <<"%","%">>)
  THEN ParseBody(lines, i + 1, acc)
  ELSE ParseBody(lines, i + 1,
                 ParseChain(Trim(lines[i]), 1, [id |-> << >>, label |-> << >>], acc))

\* the distinct node ids of a sequence of node references, in order of first appearance
RECURSIVE DistinctIds(_, _)
DistinctIds(refs, seen) ==
  IF refs = << >> THEN seen
  ELSE DistinctIds(Tail(refs),
                   IF \E k \in DOMAIN seen : seen[k] = Head(refs).id THEN seen
                   ELSE Append(seen, Head(refs).id))

\* the label the renderer shows for node id: its last bracketed label, else the id
NodeLabelOf(refs, id) ==
  LET ls == {k \in DOMAIN refs : refs[k].id = id /\ refs[k].labelled}
  IN  IF ls = {} THEN id ELSE refs[CHOOSE k \in ls : \A m \in ls : m <= k].label

\* the renderer's diagnostics
NO_TYPE_ERROR == "No diagram type detected"
PARSE_ERROR == "Parse error"

RenderFailure(msg) ==
  [ok |-> FALSE, msg |-> msg, nodes |-> << >>, edges |-> << >>, edgeLabels |-> << >>]

\* the id attribute the renderer gives the k-th node of a flowchart
FlowNodeRawId(id, k) == <<"f","l","o","w","c","h","a","r","t","-">> \o id \o <<"-">> \o DigitOf(k - 1)
\* the id attribute the renderer gives an edge path
FlowEdgeRawId(edges, k) ==
  <<"L","_">> \o edges[k].from \o <<"_">> \o edges[k].to \o <<"_">>
    \o DigitOf(Cardinality({m \in 1..(k - 1) :
                              edges[m].from = edges[k].from /\ edges[m].to = edges[k].to}))

\* the elements of a flowchart whose statements are body, its distinct node
\* ids being ids
FlowchartElements(body, ids) ==
  IF ~body.ok THEN RenderFailure(PARSE_ERROR)
  ELSE [ok |-> TRUE, msg |-> "",
        nodes |-> [k \in DOMAIN ids |->
                     [rawId |-> FlowNodeRawId(ids[k], k),
                      label |-> NodeLabelOf(body.nodes, ids[k])]],
        edges |-> [k \in DOMAIN body.edges |-> [rawId |-> FlowEdgeRawId(body.edges, k)]],
        edgeLabels |-> [k \in DOMAIN body.edges |-> [label |-> body.edges[k].label]]]

\* the flowchart whose statements are body
Flowchart(body) == FlowchartElements(body, DistinctIds(body.nodes, << >>))

\* the index of the first line at or after i that the renderer reads: not
\* blank, no comment and no directive
RECURSIVE DeclarationIndex(_, _)
DeclarationIndex(lines, i) ==
  IF i <= Len(lines) /\ (Trim(lines[i]) = << >> \/ StartsAt(Trim(lines[i]), 1, <<"%","%">>))
  THEN DeclarationIndex(lines, i + 1)
  ELSE i

\* the diagram whose declaration, header, is line h of lines; the renderer's
\* keywords are case-sensitive
RenderDeclared(lines, h, header) ==
  IF ~\E k \in DOMAIN TypeKeywords : StartsAt(header, 1, TypeKeywords[k])
  THEN RenderFailure(NO_TYPE_ERROR)
  ELSE IF \E k \in DOMAIN GraphKeywords :
            /\ StartsAt(header, 1, GraphKeywords[k])
            /\ (Len(GraphKeywords[k]) + 1 > Len(header)
                  \/ header[Len(GraphKeywords[k]) + 1] = " ")
  THEN Flowchart(ParseBody(lines, h + 1, [ok |-> TRUE, nodes |-> << >>, edges |-> << >>]))
  ELSE [ok |-> TRUE, msg |-> "", nodes |-> << >>, edges |-> << >>, edgeLabels |-> << >>]

\* the diagram whose declaration is line h of lines
RenderLines(lines, h) ==
  RenderDeclared(lines, h, IF h > Len(lines) THEN << >> ELSE Trim(lines[h]))

\* mermaid.render: [ok, msg, nodes, edges, edgeLabels]
\*   nodes: the g.node elements, [rawId, label]; edges: the path.flowchart-link
\*   elements, [rawId]; edgeLabels: the g.edgeLabel elements, [label]
\* the renderer drops comment lines and blank lines ahead of the declaration
MermaidRender(code) == RenderLines(SplitLines(code), DeclarationIndex(SplitLines(code), 1))


(***************************************************************************)
(* Element Identity Resolver (src/playwright.config.ts).                   *)
(***************************************************************************)
\* whether every character of s is a digit and s is not empty: \d+
IsDigits(s) == s # << >> /\ \A k \in DOMAIN s : s[k] \in Digits

\* the position of the "-" of a trailing -\d+, 0 when rawId has no such suffix
CounterSuffixAt(rawId) ==
  LET ds == {k \in DOMAIN rawId : rawId[k] = "-" /\ IsDigits(Sub(rawId, k + 1, Len(rawId)))}
  IN  IF ds = {} THEN 0 ELSE Min(ds)

FLOW_PREFIX == <<"f","l","o","w","c","h","a","r","t","-">>
STATE_PREFIX == <<"s","t","a","t","e","-">>
CLASS_PREFIX == <<"c","l","a","s","s","I","d","-">>

\* extractNodeId
extractNodeId(rawId) ==
  LET suf == CounterSuffixAt(rawId)
      \* /^state-(.+?)(?:-\d+)?$/ and /^classId-(.+?)(?:-\d+)?$/
      lazy(prefix) ==
        IF suf > Len(prefix) + 1 THEN Sub(rawId, Len(prefix) + 1, suf - 1)
        ELSE Sub(rawId, Len(prefix) + 1, Len(rawId))
  IN  \* /^flowchart-(.+)-\d+$/
      IF StartsAt(rawId, 1, FLOW_PREFIX) /\ suf > Len(FLOW_PREFIX) + 1
      THEN Sub(rawId, Len(FLOW_PREFIX) + 1, suf - 1)
      ELSE IF StartsAt(rawId, 1, STATE_PREFIX) /\ Len(rawId) > Len(STATE_PREFIX)
      THEN lazy(STATE_PREFIX)
      ELSE IF StartsAt(rawId, 1, CLASS_PREFIX) /\ Len(rawId) > Len(CLASS_PREFIX)
      THEN lazy(CLASS_PREFIX)
      ELSE rawId

\* the null that extractEdgeId returns
NoId == << >>

\* extractEdgeId
extractEdgeId(rawId) ==
  IF rawId = << >> THEN NoId
  ELSE IF StartsAt(rawId, 1, <<"L","_">>) \/ StartsAt(rawId, 1, <<"L","-">>) THEN rawId
  ELSE IF StartsAt(rawId, 1, <<"e","d","g","e">>) THEN rawId
  ELSE NoId

\* A visual handle: an element of the tree of render generation gen.
Handle(gen, kind, idx) == <<gen, kind, idx>>
NoHandle == <<0, "none", 0>>

\* Map.prototype.set on a map kept as a sequence of [id, h] in insertion order
MapSet(m, id, h) ==
  IF \E k \in DOMAIN m : m[k].id = id
  THEN [k \in DOMAIN m |-> IF m[k].id = id THEN [id |-> id, h |-> h] ELSE m[k]]
  ELSE Append(m, [id |-> id, h |-> h])

\* Map.prototype.get
MapGet(m, id) ==
  IF \E k \in DOMAIN m : m[k].id = id
  THEN m[CHOOSE k \in DOMAIN m : m[k].id = id].h
  ELSE NoHandle

MapKeys(m) == [k \in DOMAIN m |-> m[k].id]

\* nodeEls.forEach of findInteractiveElements, from element k on
RECURSIVE CollectNodes(_, _, _)
CollectNodes(tree, k, m) ==
  IF k > Len(tree.nodes) THEN m
  ELSE CollectNodes(tree, k + 1,
         IF tree.nodes[k].rawId = << >> THEN m
         ELSE MapSet(m, extractNodeId(tree.nodes[k].rawId), Handle(tree.gen, "node", k)))

\* edgePaths.forEach of findInteractiveElements
RECURSIVE CollectEdges(_, _, _)
CollectEdges(tree, k, m) ==
  IF k > Len(tree.edges) THEN m
  ELSE CollectEdges(tree, k + 1,
         IF extractEdgeId(tree.edges[k].rawId) = NoId THEN m
         ELSE MapSet(m, extractEdgeId(tree.edges[k].rawId), Handle(tree.gen, "edge", k)))

\* edgeLabelEls.forEach of findInteractiveElements (extractEdgeLabelText is the label)
RECURSIVE CollectEdgeLabels(_, _, _)
CollectEdgeLabels(tree, k, m) ==
  IF k > Len(tree.edgeLabels) THEN m
  ELSE CollectEdgeLabels(tree, k + 1,
         IF tree.edgeLabels[k].label = << >> THEN m
         ELSE MapSet(m, tree.edgeLabels[k].label, Handle(tree.gen, "edgeLabel", k)))

\* findInteractiveElements
findInteractiveElements(tree) ==
  [nodes |-> CollectNodes(tree, 1, << >>),
   edges |-> CollectEdges(tree, 1, << >>),
   edgeLabels |-> CollectEdgeLabels(tree, 1, << >>)]


(***************************************************************************)
(* State of the application.                                               *)
(*   App (src/ui/src/sync/changeLog.ts 111-143): mermaidCode, theme,       *)
(*   selectedElements, changes (the entries of changeLog), changeCount,    *)
(*   isToolInputError, debounceTimer, streaming, viewMode, app,            *)
(*   pendingError, errorFixTimer, errorAlreadySent, sent (the messages     *)
(*   passed to app.sendMessage).                                           *)
(*   InteractiveDiagram (src/playwright.config.ts 517-553): selectionMode, *)
(*   inlineEdit, marquee, dragging, dragMoved, marqueeJustFinished,        *)
(*   nodesRef, edgesRef, edgeLabelsRef, renderError; svg is the content of *)
(*   the container, marked the handles carrying data-selected,             *)
(*   renderCounter the module-level counter and inflight the render        *)
(*   promises that have not settled, each with the cancelled flag of the   *)
(*   effect invocation that started it.                                    *)
(*   History: pointer is the state of the mouse over the wrapper, op the   *)
(*   last operation on the change log with its input, lastNotify the last  *)
(*   call of onRenderError, run the current run of consecutive confirmed   *)
(*   renames (noop: the last confirmEdit computed the text it started      *)
(*   from), currentDirection the direction parsed from mermaidCode.        *)
(***************************************************************************)
VARIABLES mermaidCode, currentDirection, theme, selectedElements, changes, changeCount,
          isToolInputError, debounceTimer, streaming, viewMode, app,
          pendingError, errorFixTimer, errorAlreadySent, sent,
          selectionMode, inlineEdit, marquee, dragging, dragMoved,
          marqueeJustFinished,
          svg, nodesRef, edgesRef, edgeLabelsRef, marked, renderError,
          renderCounter, inflight, leaked,
          isFullscreen, fullscreenAvailable, hostHeight, prevFullscreen, hostSized,
          pointer, op, lastNotify, run

srcVars == <<mermaidCode, currentDirection, theme, streaming, isToolInputError, debounceTimer>>
logVars == <<changes, changeCount>>
fixVars == <<pendingError, errorFixTimer, errorAlreadySent, sent>>
gestureVars == <<marquee, dragging, dragMoved, marqueeJustFinished>>
domVars == <<svg, nodesRef, edgesRef, edgeLabelsRef, marked, renderError>>
rendVars == <<renderCounter, inflight>>
hostVars == <<isFullscreen, fullscreenAvailable, hostHeight, prevFullscreen, hostSized>>
vars == <<mermaidCode, currentDirection, theme, selectedElements, changes, changeCount,
          isToolInputError, debounceTimer, streaming, viewMode, app,
          pendingError, errorFixTimer, errorAlreadySent, sent,
          selectionMode, inlineEdit, marquee, dragging, dragMoved,
          marqueeJustFinished,
          svg, nodesRef, edgesRef, edgeLabelsRef, marked, renderError,
          renderCounter, inflight, leaked,
          isFullscreen, fullscreenAvailable, hostHeight, prevFullscreen, hostSized,
          pointer, op, lastNotify, run>>

\* SAMPLE_MERMAID, reduced to one labelled edge between a stadium node and a
\* rectangle node
SAMPLE_MERMAID == <<"g","r","a","p","h"," ","T","D","\n"," "," ","A","(","[","s","]",")"," ","-","-",">","|","y","|"," ","B","[","p","]">>

\* DEFAULT_HEIGHT of App
DEFAULT_HEIGHT == 500
\* the CSS lengths `${n}px` and "100vh"
Px(n) == <<n, "px">>
FULL_VIEWPORT == <<100, "vh">>

\* values of nullable state
NoEdit == [kind |-> "none", id |-> << >>, label |-> << >>]
NoMarquee == [active |-> FALSE, w |-> 0, h |-> 0]
NoSvg == [gen |-> 0, nodes |-> << >>, edges |-> << >>, edgeLabels |-> << >>]
NoError == [set |-> FALSE, message |-> "", code |-> << >>]
NoTimer == [pending |-> FALSE, app |-> FALSE]
NoChange == [type |-> "none"]
NoRun == [n |-> 0, kind |-> "none", id |-> << >>, idx |-> 0, first |-> << >>,
          last |-> << >>, base |-> 0, editing |-> 0, noop |-> FALSE]

\* pointer targets that are not elements of the tree
EMPTY == <<0, "empty", 0>>
BTN_MODE == <<0, "btnMode", 0>>
BTN_DIR == <<0, "btnDir", 0>>

IdlePointer == [phase |-> "idle", target |-> EMPTY, x |-> 0, y |-> 0,
                inside |-> TRUE, clicks |-> 0]

Op(name) == [name |-> name, change |-> NoChange]

\* a render started by the render effect
Render(id, code, th, ap) ==
  [id |-> id, code |-> code, theme |-> th, cancelled |-> FALSE, app |-> ap]

\* currentDirection as InteractiveDiagram computes it in a commit, from the
\* diagramType that App passes (detectedType) and mermaidCode
DirectionOf(code) ==
  IF detectDiagramType(code) = FLOWCHART THEN parseDirection(code) ELSE NoDirection

\* The state after the first commit: App and InteractiveDiagram mounted in
\* the canvas view, the render effect has started render 1.
Init ==
  /\ mermaidCode = SAMPLE_MERMAID
  /\ currentDirection = DirectionOf(SAMPLE_MERMAID)
  /\ theme = "light"
  /\ selectedElements = << >>
  /\ changes = << >>
  /\ changeCount = 0
  /\ isToolInputError = FALSE
  /\ debounceTimer = FALSE
  /\ streaming = FALSE
  /\ viewMode = "canvas"
  /\ app = FALSE
  /\ pendingError = NoError
  /\ errorFixTimer = NoTimer
  /\ errorAlreadySent = << >>
  /\ sent = << >>
  /\ selectionMode = FALSE
  /\ inlineEdit = NoEdit
  /\ marquee = NoMarquee
  /\ dragging = FALSE
  /\ dragMoved = FALSE
  /\ marqueeJustFinished = FALSE
  /\ svg = NoSvg
  /\ nodesRef = << >>
  /\ edgesRef = << >>
  /\ edgeLabelsRef = << >>
  /\ marked = {}
  /\ renderError = << >>
  /\ renderCounter = 1
  /\ inflight = {Render(1, SAMPLE_MERMAID, "light", FALSE)}
  /\ leaked = FALSE
  /\ isFullscreen = FALSE
  /\ fullscreenAvailable = FALSE
  /\ hostHeight = Px(DEFAULT_HEIGHT)
  /\ prevFullscreen = FALSE
  /\ hostSized = FALSE
  /\ pointer = IdlePointer
  /\ op = Op("init")
  /\ lastNotify = [id |-> 0, error |-> << >>]
  /\ run = NoRun

(***************************************************************************)
(* The change log alone: any sequence of add and clear calls.              *)
(***************************************************************************)
LogIds == {<<"A">>, <<"B">>}
LogLabels == {<<"x">>, <<"y">>, <<"z">>}
LogDirections == {DIRECTIONS[1], DIRECTIONS[2]}
\* the changes the handlers pass to add: the new value differs from the old
LogChanges ==
  {c \in {Rename(id, old, new) : id \in LogIds, old \in LogLabels, new \in LogLabels} :
     c.oldLabel # c.newLabel}
    \cup {c \in {LayoutChange(old, new) : old \in LogDirections, new \in LogDirections} :
            c.oldDirection # c.newDirection}

appOnly == <<mermaidCode, currentDirection, theme, selectedElements, changeCount,
             isToolInputError, debounceTimer, streaming, viewMode, app,
             pendingError, errorFixTimer, errorAlreadySent, sent,
             selectionMode, inlineEdit, marquee, dragging, dragMoved,
             marqueeJustFinished,
             svg, nodesRef, edgesRef, edgeLabelsRef, marked, renderError,
             renderCounter, inflight, leaked, hostVars, pointer, lastNotify, run>>

\* changeLog.add(change)
LogAdd(change) ==
  /\ Len(changes) < MaxLog \/ Len(ChangeLog_add(changes, change)) = Len(changes)
  /\ changes' = ChangeLog_add(changes, change)
  /\ op' = [Op("add") EXCEPT !.change = change]
  /\ UNCHANGED appOnly

\* changeLog.clear()
LogClear ==
  /\ changes' = ChangeLog_clear(changes)
  /\ op' = Op("clear")
  /\ UNCHANGED appOnly

NextLog ==
  \/ \E change \in LogChanges : LogAdd(change)
  \/ LogClear

SpecLog == Init /\ [][NextLog]_vars


(***************************************************************************)
(* Properties of the change log.                                           *)
(***************************************************************************)
\* the incoming change has the kind of the last entry and, for a rename,
\* its nodeId
SameKindAsLast(log, change) ==
  /\ Len(log) > 0
  /\ log[Len(log)].type = change.type
  /\ change.type = "rename" => log[Len(log)].nodeId = change.nodeId

\* C1: the log never holds two adjacent rename entries with the same nodeId
\* nor two adjacent layout-change entries, whatever adds and clears ran.
C1_NoAdjacentCoalescible ==
  \A i \in 1..(Len(changes) - 1) :
    /\ ~(/\ changes[i].type = "rename"
         /\ changes[i + 1].type = "rename"
         /\ changes[i].nodeId = changes[i + 1].nodeId)
    /\ ~(changes[i].type = "layout-change" /\ changes[i + 1].type = "layout-change")

\* an add has just coalesced a rename into an entry that follows another entry
C1_Witness ==
  /\ op.name = "add"
  /\ Len(changes) >= 2
  /\ op.change.type = "rename"
  /\ changes[Len(changes)].type = "rename"
  /\ changes[Len(changes)].oldLabel # op.change.oldLabel

\* C2: an add whose change has the kind of the last entry (and its nodeId,
\* for a rename) leaves the count as it was, and the last entry then pairs
\* the stored old value with the incoming new value; the entries before it
\* stay as they were.
C2_CoalesceKeepsStoredOld ==
  [][(op'.name = "add" /\ SameKindAsLast(changes, op'.change)) =>
       /\ ChangeLog_count(changes') = ChangeLog_count(changes)
       /\ \A i \in 1..(Len(changes) - 1) : changes'[i] = changes[i]
       /\ changes'[Len(changes)].type = op'.change.type
       /\ IF op'.change.type = "rename"
          THEN /\ changes'[Len(changes)].nodeId = op'.change.nodeId
               /\ changes'[Len(changes)].oldLabel = changes[Len(changes)].oldLabel
               /\ changes'[Len(changes)].newLabel = op'.change.newLabel
          ELSE /\ changes'[Len(changes)].oldDirection = changes[Len(changes)].oldDirection
               /\ changes'[Len(changes)].newDirection = op'.change.newDirection]_vars

\* rename(A, x, y) then rename(A, y, z) has left the single entry rename(A, x, z)
C2_Witness ==
  /\ op.name = "add"
  /\ op.change = Rename(<<"A">>, <<"y">>, <<"z">>)
  /\ changes = <<Rename(<<"A">>, <<"x">>, <<"z">>)>>

\* C3: an add whose change differs from the last entry in kind or in nodeId
\* (or that finds the log empty) appends: the count grows by one, the entries
\* already there stay as they were, the new last entry is the change, and
\* serialize numbers the lines 1, 2, 3, ... in log order.
C3_OtherwiseAppends ==
  [][(op'.name = "add" /\ ~SameKindAsLast(changes, op'.change)) =>
       /\ ChangeLog_count(changes') = ChangeLog_count(changes) + 1
       /\ SubSeq(changes', 1, Len(changes)) = changes
       /\ changes'[Len(changes')] = op'.change
       /\ Len(ChangeLog_serialize(changes')) = Len(changes')
       /\ \A i \in DOMAIN changes' :
            /\ ChangeLog_serialize(changes')[i][1] = i
            /\ ChangeLog_serialize(changes')[i] = SerializeLine(changes'[i], i)]_vars

\* rename(A, x, y), layout-change(TD, LR), rename(A, y, z) are three entries
C3_Witness ==
  /\ op.name = "add"
  /\ changes = <<Rename(<<"A">>, <<"x">>, <<"y">>),
                 LayoutChange(DIRECTIONS[1], DIRECTIONS[2]),
                 Rename(<<"A">>, <<"y">>, <<"z">>)>>
  /\ ChangeLog_serialize(changes)[3][1] = 3


(***************************************************************************)
(* The application: App and InteractiveDiagram.                            *)
(***************************************************************************)
\* the texts the code editor and the host's tool deliver
EditorTexts == { <<"g","r","a","p","h"," ","T","D","\n"," "," ","A","(","[","s","]",")">>,
                 <<"g","r","a","p","h"," ","T","D","\n"," "," ","A","(","[","s">> }
ToolTexts == { <<"f","l","o","w","c","h","a","r","t"," ","L","R","\n"," "," ","A"," ","-","-",">"," ","B">>,
               <<"g","r","a","p","h"," ","T","D","\n"," "," ","B","[">> }
\* what the user has typed into the inline edit input when it is confirmed
InputValues == { << >>, <<"x">>, <<" ", "p">> }
Themes == {"light", "dark"}
ViewModes == {"code", "canvas", "split"}

\* err.code.slice(0, 200) of the error key
KEY_PREFIX == 200

\* InteractiveDiagram is mounted in the canvas and the split view
Mounted == viewMode # "code"

\* the cap on the render invocations of a behaviour: MaxRenders, and one more
\* once an auto-fix message has gone out
RenderBudget == MaxRenders + (IF sent = << >> THEN 0 ELSE 1)

\* the cleanup of the render effect: cancelled = true in every earlier invocation
CancelAll(renders) == {[q EXCEPT !.cancelled = TRUE] : q \in renders}

\* a plausible slip: the cleanup does not set the flag
RenderEffect_NoCancel(code, th) ==
  /\ Trim(code) # << >> => renderCounter < RenderBudget
  /\ renderCounter' = IF Trim(code) # << >> THEN renderCounter + 1 ELSE renderCounter
  /\ inflight' = inflight \cup
                   (IF Trim(code) # << >>
                    THEN {Render(renderCounter + 1, code, th, app)}
                    ELSE {})

\* The render effect after a commit in which mermaidCode or theme changed (or
\* the component mounted): the cleanup of the previous invocation, then the
\* new invocation with the props of this commit.
RenderEffect(code, th) ==
  /\ Trim(code) # << >> => renderCounter < RenderBudget
  /\ renderCounter' = IF Trim(code) # << >> THEN renderCounter + 1 ELSE renderCounter
  /\ inflight' = CancelAll(inflight) \cup
                   (IF Trim(code) # << >>
                    THEN {Render(renderCounter + 1, code, th, app)}
                    ELSE {})

\* the effects of a commit of App with the diagram's props code and th
CommitSource(code, th) ==
  IF Mounted /\ (code # mermaidCode \/ th # theme)
  THEN RenderEffect(code, th)
  ELSE UNCHANGED rendVars

\* a plausible slip: the marks of the previous selection are not removed
applySelectionHighlights_KeepsOld(selected, tree, nodes, edges, old) ==
  IF tree.gen = 0 THEN old
  ELSE (old \cup {MapGet(nodes, selected[k]) : k \in DOMAIN selected}
            \cup {MapGet(edges, selected[k]) : k \in DOMAIN selected}) \ {NoHandle}

\* applySelectionHighlights(selected) on the tree and tables given
applySelectionHighlights(selected, tree, nodes, edges, old) ==
  IF tree.gen = 0 THEN old
  ELSE ({h \in old : h[1] # tree.gen}
          \cup {MapGet(nodes, selected[k]) : k \in DOMAIN selected}
          \cup {MapGet(edges, selected[k]) : k \in DOMAIN selected}) \ {NoHandle}

\* onSelectionChange(selected) and the highlight effect of the next commit
SetSelection(selected) ==
  /\ Len(selected) <= MaxSel
  /\ selectedElements' = selected
  /\ marked' = IF Mounted
               THEN applySelectionHighlights(selected, svg, nodesRef, edgesRef, marked)
               ELSE marked

\* handleCodeChange(newCode, change), change = NoChange when none is given
handleCodeChange(newCode, change) ==
  /\ mermaidCode' = newCode
  /\ currentDirection' = DirectionOf(newCode)
  /\ isToolInputError' = FALSE
  /\ changes' = IF change.type # "none" THEN ChangeLog_add(changes, change) ELSE changes
  /\ Len(changes') <= MaxLog
  /\ changeCount' = IF change.type # "none" THEN ChangeLog_count(changes') ELSE changeCount
  /\ debounceTimer' = TRUE
  /\ UNCHANGED <<theme, streaming>>
  /\ CommitSource(newCode, theme)

\* App.ontoolinput
ToolInput(code) ==
  /\ app
  /\ isToolInputError' = TRUE
  /\ mermaidCode' = code
  /\ currentDirection' = DirectionOf(code)
  /\ streaming' = FALSE
  /\ changes' = ChangeLog_clear(changes)
  /\ changeCount' = 0
  /\ CommitSource(code, theme)
  /\ run' = NoRun
  /\ UNCHANGED <<op, leaked, hostVars>>
  /\ UNCHANGED <<theme, debounceTimer, selectedElements, viewMode, app, fixVars,
                 selectionMode, inlineEdit, gestureVars, domVars, pointer, lastNotify>>

\* App.ontoolinputpartial
ToolInputPartial(code) ==
  /\ app
  /\ code # << >>
  /\ streaming' = TRUE
  /\ mermaidCode' = code
  /\ currentDirection' = DirectionOf(code)
  /\ CommitSource(code, theme)
  /\ UNCHANGED <<op, leaked, hostVars>>
  /\ UNCHANGED <<theme, isToolInputError, debounceTimer, logVars, selectedElements,
                 viewMode, app, fixVars, selectionMode, inlineEdit, gestureVars,
                 domVars, pointer, lastNotify, run>>

\* CodeEditor.onChange = handleCodeChange(newCode)
EditorChange(code) ==
  /\ viewMode \in {"code", "split"}
  /\ inlineEdit.kind = "none"
  /\ code # mermaidCode
  /\ handleCodeChange(code, NoChange)
  /\ UNCHANGED <<op, leaked, hostVars>>
  /\ UNCHANGED <<selectedElements, viewMode, app, fixVars, selectionMode, inlineEdit,
                 gestureVars, domVars, pointer, lastNotify, run>>

\* useDocumentTheme delivers another theme
ThemeChange(th) ==
  /\ th # theme
  /\ theme' = th
  /\ CommitSource(mermaidCode, th)
  /\ UNCHANGED <<op, leaked, hostVars>>
  /\ UNCHANGED <<mermaidCode, currentDirection, streaming, isToolInputError, debounceTimer, logVars,
                 selectedElements, viewMode, app, fixVars, selectionMode, inlineEdit,
                 gestureVars, domVars, pointer, lastNotify, run>>

\* A host context is << >> (null or undefined) or <<c>> with the record c of
\* its fields; an absent field is << >>, a present one <<value>>.
NullContext == << >>
Context(modes, mode, dims) ==
  <<[availableDisplayModes |-> modes, displayMode |-> mode, containerDimensions |-> dims]>>
\* containerDimensions with the numbers given (<< >> where the key is absent)
Dims(height, maxHeight) == <<[height |-> height, maxHeight |-> maxHeight]>>

\* Math.min
MathMin(a, b) == IF a < b THEN a ELSE b

\* processHostContext: setFullscreenAvailable(availModes.includes("fullscreen"))
AvailableAfter(ctx) ==
  IF ctx = NullContext \/ ctx[1].availableDisplayModes = << >>
  THEN fullscreenAvailable
  ELSE "fullscreen" \in ctx[1].availableDisplayModes[1]

\* processHostContext: setIsFullscreen(displayMode === "fullscreen")
FullscreenAfter(ctx) ==
  IF ctx = NullContext \/ ctx[1].displayMode = << >>
  THEN isFullscreen
  ELSE ctx[1].displayMode[1] = "fullscreen"

\* whether the context carries containerDimensions with a numeric height or
\* maxHeight
SuppliesHeight(ctx) ==
  /\ ctx # NullContext
  /\ ctx[1].containerDimensions # << >>
  /\ \/ ctx[1].containerDimensions[1].height # << >>
     \/ ctx[1].containerDimensions[1].maxHeight # << >>

\* processHostContext: the setHostHeight of the containerDimensions branch
HeightAfter(ctx) ==
  IF ~SuppliesHeight(ctx) THEN hostHeight
  ELSE IF ctx[1].containerDimensions[1].height # << >>
       THEN Px(ctx[1].containerDimensions[1].height[1])
       ELSE Px(MathMin(DEFAULT_HEIGHT, ctx[1].containerDimensions[1].maxHeight[1]))

\* a plausible slip: the effect never resets the height
DisplayCommit_NoReset(full, height) ==
  /\ isFullscreen' = full
  /\ hostHeight' = height
  /\ prevFullscreen' = full

\* the commit of isFullscreen = full and hostHeight = height, and the effect
\* on [isFullscreen] that follows it: setHostHeight(DEFAULT_HEIGHT) when
\* prevFullscreen.current && !isFullscreen, then prevFullscreen.current =
\* isFullscreen
DisplayCommit(full, height) ==
  /\ isFullscreen' = full
  /\ hostHeight' = IF prevFullscreen /\ ~full THEN Px(DEFAULT_HEIGHT) ELSE height
  /\ prevFullscreen' = full

\* processHostContext(ctx) and the commit of what it set
processHostContext(ctx) ==
  /\ fullscreenAvailable' = AvailableAfter(ctx)
  /\ DisplayCommit(FullscreenAfter(ctx), HeightAfter(ctx))
  /\ hostSized' = (hostSized \/ SuppliesHeight(ctx))

\* const rootHeight = isFullscreen ? "100vh" : hostHeight
rootHeight == IF isFullscreen THEN FULL_VIEWPORT ELSE hostHeight

\* connect(transport).then: setApp(mcpApp), and the effect on [app] that
\* processes app.getHostContext() = ctx
Connect(ctx) ==
  /\ ~app
  /\ app' = TRUE
  /\ processHostContext(ctx)
  /\ UNCHANGED <<op, leaked>>
  /\ UNCHANGED <<srcVars, logVars, selectedElements, viewMode, fixVars, selectionMode,
                 inlineEdit, gestureVars, domVars, rendVars, pointer, lastNotify, run>>

\* mcpApp.onhostcontextchanged(params)
HostContextChanged(ctx) ==
  /\ app
  /\ processHostContext(ctx)
  /\ UNCHANGED <<op, leaked>>
  /\ UNCHANGED <<srcVars, logVars, selectedElements, viewMode, app, fixVars, selectionMode,
                 inlineEdit, gestureVars, domVars, rendVars, pointer, lastNotify, run>>

\* handleToggleFullscreen, the onClick of the fullscreen button: the host
\* answers requestDisplayMode with either mode, or the request fails and the
\* flag is toggled locally
ToggleFullscreen ==
  /\ fullscreenAvailable
  /\ \E full \in BOOLEAN : DisplayCommit(full, hostHeight)
  /\ UNCHANGED <<fullscreenAvailable, hostSized>>
  /\ UNCHANGED <<op, leaked>>
  /\ UNCHANGED <<srcVars, logVars, selectedElements, viewMode, app, fixVars, selectionMode,
                 inlineEdit, gestureVars, domVars, rendVars, pointer, lastNotify, run>>

\* the keydown listener of the fullscreen state on Escape: the host answers
\* requestDisplayMode({mode: "inline"}) with either mode, or the request fails
\* and the flag is set to false
EscapeKey ==
  /\ isFullscreen
  /\ \E full \in BOOLEAN : DisplayCommit(full, hostHeight)
  /\ UNCHANGED <<fullscreenAvailable, hostSized>>
  /\ UNCHANGED <<op, leaked>>
  /\ UNCHANGED <<srcVars, logVars, selectedElements, viewMode, app, fixVars, selectionMode,
                 inlineEdit, gestureVars, domVars, rendVars, pointer, lastNotify, run>>

\* connect(transport).then with a host that has no context yet
AppConnect == Connect(NullContext)

\* the timer of handleCodeChange fires
DebounceTimerFire ==
  /\ debounceTimer
  /\ debounceTimer' = FALSE
  /\ UNCHANGED <<op, leaked, hostVars>>
  /\ UNCHANGED <<mermaidCode, currentDirection, theme, streaming, isToolInputError, logVars,
                 selectedElements, viewMode, app, fixVars, selectionMode, inlineEdit,
                 gestureVars, domVars, rendVars, pointer, lastNotify, run>>

\* the error key of scheduleErrorAutoFix
ErrorKey(err) ==
  <<err.message, "::", Sub(err.code, 1, IF Len(err.code) < KEY_PREFIX THEN Len(err.code) ELSE KEY_PREFIX)>>

\* the timer of scheduleErrorAutoFix fires
ErrorFixTimerFire ==
  /\ errorFixTimer.pending
  /\ errorFixTimer' = [errorFixTimer EXCEPT !.pending = FALSE]
  /\ IF /\ pendingError.set
        /\ errorFixTimer.app
        /\ errorAlreadySent # <<ErrorKey(pendingError)>>
        /\ isToolInputError
     THEN /\ errorAlreadySent' = <<ErrorKey(pendingError)>>
          /\ sent' = Append(sent, [message |-> pendingError.message, code |-> pendingError.code])
          /\ pendingError' = NoError
     ELSE UNCHANGED <<errorAlreadySent, sent, pendingError>>
  /\ UNCHANGED <<op, leaked, hostVars>>
  /\ UNCHANGED <<srcVars, logVars, selectedElements, viewMode, app, selectionMode,
                 inlineEdit, gestureVars, domVars, rendVars, pointer, lastNotify, run>>


\* a plausible slip: the success branch leaves the timer running
ClearPendingError_KeepsTimer ==
  /\ pendingError' = pendingError
  /\ errorFixTimer' = errorFixTimer
  /\ errorAlreadySent' = << >>
  /\ UNCHANGED sent

\* handleRenderError(null): the render succeeded
ClearPendingError ==
  /\ pendingError' = NoError
  /\ errorFixTimer' = [errorFixTimer EXCEPT !.pending = FALSE]
  /\ errorAlreadySent' = << >>
  /\ UNCHANGED sent

\* handleRenderError(msg) of the commit that started render r:
\* scheduleErrorAutoFix({message: msg, code: mermaidCode}) with that commit's
\* mermaidCode and app
ScheduleErrorAutoFix(r, msg) ==
  /\ pendingError' = [set |-> TRUE, message |-> msg, code |-> r.code]
  /\ errorFixTimer' = [pending |-> TRUE, app |-> r.app]
  /\ UNCHANGED <<errorAlreadySent, sent>>

\* a plausible slip: the callbacks do not test the cancelled flag
Superseded_Ignored(r) == FALSE

\* if (cancelled || !containerRef.current) return / if (cancelled) return
Superseded(r) == r.cancelled

\* a plausible slip: the failure callback empties the container
FailureTree_Emptied(tree) == NoSvg

\* what a failed render leaves in the container
FailureTree(tree) == tree

\* a plausible slip: a table that the new tree leaves empty keeps its entries
RenderApplied_KeepsTables(r, tree, found) ==
  /\ svg' = tree
  /\ renderError' = << >>
  /\ ClearPendingError
  /\ lastNotify' = [id |-> r.id, error |-> << >>]
  /\ nodesRef' = IF found.nodes = << >> THEN nodesRef ELSE found.nodes
  /\ edgesRef' = IF found.edges = << >> THEN edgesRef ELSE found.edges
  /\ edgeLabelsRef' = found.edgeLabels
  /\ marked' = applySelectionHighlights(selectedElements, tree, nodesRef', edgesRef', {})

\* the then callback of render r: container.innerHTML = svg, setRenderError,
\* onRenderError(null), postProcessSvg with the tables found
RenderApplied(r, tree, found) ==
  /\ svg' = tree
  /\ renderError' = << >>
  /\ ClearPendingError
  /\ lastNotify' = [id |-> r.id, error |-> << >>]
  /\ nodesRef' = found.nodes
  /\ edgesRef' = found.edges
  /\ edgeLabelsRef' = found.edgeLabels
  /\ marked' = applySelectionHighlights(selectedElements, tree, found.nodes, found.edges, {})

\* the catch callback of render r
RenderFailed(r, msg) ==
  /\ renderError' = <<msg>>
  /\ ScheduleErrorAutoFix(r, msg)
  /\ lastNotify' = [id |-> r.id, error |-> <<msg>>]
  /\ svg' = FailureTree(svg)
  /\ UNCHANGED <<nodesRef, edgesRef, edgeLabelsRef, marked>>

\* the tree that render r answered with res puts into the container
TreeOf(r, res) ==
  [gen |-> r.id, nodes |-> res.nodes, edges |-> res.edges, edgeLabels |-> res.edgeLabels]

\* the callbacks of render r that settled with res
RenderSettled(r, res) ==
  IF Superseded(r) THEN UNCHANGED <<domVars, fixVars, lastNotify>>
  ELSE IF res.ok THEN RenderApplied(r, TreeOf(r, res), findInteractiveElements(TreeOf(r, res)))
  ELSE RenderFailed(r, res.msg)

\* whether the renderer leaves its temporary element or its error drawing
\* among the children of document.body: never after a success, and after a
\* failure it depends on the renderer's version
RendererLeaves(res) == IF res.ok THEN {FALSE} ELSE BOOLEAN

\* cleanupMermaidLeaks: every child of document.body that the selectors
\* match is removed; whether any is left
cleanupMermaidLeaks(before) == FALSE

\* what document.body holds after the callbacks of render r: they return
\* before cleanupMermaidLeaks when r is superseded
LeakedAfter(r, left) ==
  IF Superseded(r) THEN leaked \/ left ELSE cleanupMermaidLeaks(leaked \/ left)

\* mermaid.render(id, mermaidCode) settles: the then or the catch callback
RenderSettle(r) ==
  /\ r \in inflight
  /\ inflight' = inflight \ {r}
  /\ UNCHANGED renderCounter
  /\ UNCHANGED <<op, hostVars>>
  /\ RenderSettled(r, MermaidRender(r.code))
  /\ \E left \in RendererLeaves(MermaidRender(r.code)) : leaked' = LeakedAfter(r, left)
  /\ UNCHANGED <<srcVars, logVars, selectedElements, viewMode, app, selectionMode,
                 inlineEdit, gestureVars, pointer, run>>

\* ViewSwitch.onChange = setViewMode(mode): the InteractiveDiagram of the old
\* view unmounts (the cleanup of its render effect runs) and the one of the
\* new view mounts with fresh state and runs its effects
ViewSwitch(mode) ==
  /\ mode # viewMode
  /\ pointer.phase = "idle"
  /\ inlineEdit.kind = "none"
  /\ viewMode' = mode
  /\ selectionMode' = FALSE
  /\ inlineEdit' = NoEdit
  /\ marquee' = NoMarquee
  /\ dragging' = FALSE
  /\ dragMoved' = FALSE
  /\ marqueeJustFinished' = FALSE
  /\ svg' = NoSvg
  /\ nodesRef' = << >>
  /\ edgesRef' = << >>
  /\ edgeLabelsRef' = << >>
  /\ marked' = {}
  /\ renderError' = << >>
  /\ IF mode # "code"
     THEN RenderEffect(mermaidCode, theme)
     ELSE /\ inflight' = CancelAll(inflight)
          /\ UNCHANGED renderCounter
  /\ pointer' = [IdlePointer EXCEPT !.inside = pointer.inside]
  /\ UNCHANGED <<op, leaked, hostVars>>
  /\ UNCHANGED <<srcVars, logVars, selectedElements, app, fixVars, lastNotify, run>>


(***************************************************************************)
(* The pointer over the wrapper of InteractiveDiagram.  A gesture is       *)
(* mousedown, mousemoves, mouseup and the click that follows; positions    *)
(* are offsets from the point of the mousedown.                            *)
(***************************************************************************)
\* the positions a mousemove reports
Moves == {<<0, 0>>, <<3, 3>>, <<6, 3>>, <<6, 6>>}
\* Math.abs(dx) > 3 || Math.abs(dy) > 3
DRAG_THRESHOLD == 3
\* rect.w > 5 && rect.h > 5
MARQUEE_MIN == 5

Abs(n) == IF n < 0 THEN 0 - n ELSE n

supportsDirection == currentDirection # NoDirection

\* what the pointer can be over
Targets ==
  {EMPTY, BTN_MODE}
    \cup (IF supportsDirection THEN {BTN_DIR} ELSE {})
    \cup {Handle(svg.gen, "node", k) : k \in DOMAIN svg.nodes}
    \cup {Handle(svg.gen, "edge", k) : k \in DOMAIN svg.edges}
    \cup {Handle(svg.gen, "edgeLabel", k) :
            k \in {j \in DOMAIN svg.edgeLabels : svg.edgeLabels[j].label # << >>}}

\* the walk of handleMouseDown up to the wrapper: on a g.node or g.edgeLabel
OnNode(t) == t[2] \in {"node", "edgeLabel"}

\* handleMouseDown
MouseDown(t) ==
  /\ Mounted
  /\ pointer.phase = "idle"
  /\ pointer.inside
  /\ t \in Targets
  /\ IF inlineEdit.kind # "none"
     THEN UNCHANGED gestureVars
     ELSE IF selectionMode /\ ~OnNode(t)
     THEN /\ marquee' = [active |-> TRUE, w |-> 0, h |-> 0]
          /\ UNCHANGED <<dragging, dragMoved, marqueeJustFinished>>
     ELSE /\ dragging' = TRUE
          /\ dragMoved' = FALSE
          /\ UNCHANGED <<marquee, marqueeJustFinished>>
  /\ pointer' = [phase |-> "down", target |-> t, x |-> 0, y |-> 0, inside |-> TRUE,
                 clicks |-> IF t = pointer.target THEN pointer.clicks ELSE 0]
  /\ UNCHANGED <<op, leaked, hostVars>>
  /\ UNCHANGED <<srcVars, logVars, selectedElements, viewMode, app, fixVars,
                 selectionMode, inlineEdit, domVars, rendVars, lastNotify, run>>

\* handleMouseMove; lastMouse is the pointer's previous position
MouseMove(nx, ny) ==
  /\ Mounted
  /\ pointer.phase = "down"
  /\ pointer.inside
  /\ inlineEdit.kind = "none"
  /\ <<nx, ny>> # <<pointer.x, pointer.y>>
  /\ IF marquee.active
     THEN /\ marquee' = [active |-> TRUE, w |-> Abs(nx), h |-> Abs(ny)]
          /\ UNCHANGED <<dragging, dragMoved, marqueeJustFinished>>
     ELSE IF ~dragging
     THEN UNCHANGED gestureVars
     ELSE /\ dragMoved' = (dragMoved \/ Abs(nx - pointer.x) > DRAG_THRESHOLD
                                     \/ Abs(ny - pointer.y) > DRAG_THRESHOLD)
          /\ UNCHANGED <<marquee, dragging, marqueeJustFinished>>
  /\ pointer' = [pointer EXCEPT !.x = nx, !.y = ny, !.clicks = 0]
  /\ UNCHANGED <<op, leaked, hostVars>>
  /\ UNCHANGED <<srcVars, logVars, selectedElements, viewMode, app, fixVars,
                 selectionMode, inlineEdit, domVars, rendVars, lastNotify, run>>

\* new Set([...a, ...b]) as an array: a, then the members of b not yet seen
RECURSIVE Merge(_, _)
Merge(a, b) ==
  IF b = << >> THEN a
  ELSE Merge(IF \E k \in DOMAIN a : a[k] = Head(b) THEN a ELSE Append(a, Head(b)), Tail(b))

\* a plausible slip: the marquee always replaces the selection
MarqueeSelection_Replace(selected, shiftKey) == selected

\* a plausible slip: the merge concatenates without the Set
MarqueeSelection_Concat(selected, shiftKey) ==
  IF shiftKey /\ Len(selectedElements) > 0 THEN selectedElements \o selected
  ELSE selected

\* the selection handleMouseUp passes to onSelectionChange
MarqueeSelection(selected, shiftKey) ==
  IF shiftKey /\ Len(selectedElements) > 0 THEN Merge(selectedElements, selected)
  ELSE selected

\* handleMouseUp; hit is the set of node ids whose box intersects the rectangle
MouseUp(shiftKey, hit) ==
  /\ Mounted
  /\ pointer.phase = "down"
  /\ pointer.inside
  /\ inlineEdit.kind = "none"
  /\ hit \subseteq Range(MapKeys(nodesRef))
  /\ IF marquee.active
     THEN /\ IF marquee.w > MARQUEE_MIN /\ marquee.h > MARQUEE_MIN
             THEN SetSelection(MarqueeSelection(
                    SelectSeq(MapKeys(nodesRef), LAMBDA id : id \in hit), shiftKey))
             ELSE UNCHANGED <<selectedElements, marked>>
          /\ marquee' = NoMarquee
          /\ marqueeJustFinished' = TRUE
          /\ UNCHANGED <<dragging, dragMoved>>
     ELSE /\ dragging' = FALSE
          /\ UNCHANGED <<marquee, dragMoved, marqueeJustFinished, selectedElements, marked>>
  /\ pointer' = [pointer EXCEPT !.phase = "released"]
  /\ UNCHANGED <<op, leaked, hostVars>>
  /\ UNCHANGED <<srcVars, logVars, viewMode, app, fixVars, selectionMode, inlineEdit,
                 svg, nodesRef, edgesRef, edgeLabelsRef, renderError, rendVars,
                 lastNotify, run>>

\* handleMouseLeave
MouseLeave ==
  /\ Mounted
  /\ pointer.inside
  /\ pointer.phase # "released"
  /\ dragging' = FALSE
  /\ marquee' = IF marquee.active THEN NoMarquee ELSE marquee
  /\ pointer' = [(IF pointer.phase = "idle" THEN IdlePointer ELSE pointer)
                   EXCEPT !.inside = FALSE, !.clicks = 0]
  /\ UNCHANGED <<op, leaked, hostVars>>
  /\ UNCHANGED <<srcVars, logVars, selectedElements, viewMode, app, fixVars,
                 selectionMode, inlineEdit, dragMoved, marqueeJustFinished, domVars,
                 rendVars, lastNotify, run>>

\* the pointer comes back over the wrapper: no handler is attached
MouseEnter ==
  /\ ~pointer.inside
  /\ pointer' = [pointer EXCEPT !.inside = TRUE]
  /\ UNCHANGED <<op, leaked, hostVars>>
  /\ UNCHANGED <<srcVars, logVars, selectedElements, viewMode, app, fixVars,
                 selectionMode, inlineEdit, gestureVars, domVars, rendVars,
                 lastNotify, run>>

\* the button is released outside of the wrapper: neither mouseup nor click
\* reaches it
ReleaseOutside ==
  /\ ~pointer.inside
  /\ pointer.phase = "down"
  /\ pointer' = [IdlePointer EXCEPT !.inside = FALSE]
  /\ UNCHANGED <<op, leaked, hostVars>>
  /\ UNCHANGED <<srcVars, logVars, selectedElements, viewMode, app, fixVars,
                 selectionMode, inlineEdit, gestureVars, domVars, rendVars,
                 lastNotify, run>>

\* the element of the current tree that handle t names
IsLive(t) ==
  \/ t \in {EMPTY, BTN_MODE}
  \/ t = BTN_DIR /\ supportsDirection
  \/ t[1] = svg.gen /\ t[1] # 0

\* the id attribute of the element t
RawIdOf(t) ==
  IF t[2] = "node" THEN svg.nodes[t[3]].rawId
  ELSE IF t[2] = "edge" THEN svg.edges[t[3]].rawId
  ELSE << >>

\* the walk of handleClick up to the container: clickedNodeId || clickedEdgeId
ClickedId(t) ==
  IF t[2] = "node"
  THEN (IF RawIdOf(t) # << >> THEN extractNodeId(RawIdOf(t)) ELSE NoId)
  ELSE IF t[2] = "edge" THEN extractEdgeId(RawIdOf(t))
  ELSE NoId

\* selectedRef.current.filter((id) => id !== clickedId)
Without(selected, id) == SelectSeq(selected, LAMBDA e : e # id)

\* a plausible slip: a click on a selected element keeps it selected
ToggleSelection_AddOnly(selected, id) ==
  IF \E k \in DOMAIN selected : selected[k] = id THEN selected ELSE Append(selected, id)

\* a plausible slip: a newly selected element is put in front
ToggleSelection_Prepend(selected, id) ==
  IF \E k \in DOMAIN selected : selected[k] = id THEN Without(selected, id)
  ELSE <<id>> \o selected

\* the toggle of handleClick
ToggleSelection(selected, id) ==
  IF \E k \in DOMAIN selected : selected[k] = id THEN Without(selected, id)
  ELSE Append(selected, id)

\* a plausible slip: the direction toggle reports the change whatever it computed
DirectionEdits_Always(updatedCode) == TRUE

\* if (updatedCode !== mermaidCodeRef.current) of handleDirectionToggle
DirectionEdits(updatedCode) == updatedCode # mermaidCode

\* a plausible slip: leaving selection mode keeps the selection
toggleSelectionMode_KeepsSelection(prev, selected) == selected

\* toggleSelectionMode: the selection after the updater of setSelectionMode ran
\* with the mode prev (onSelectionChange([]) when the mode was on)
toggleSelectionMode(prev, selected) == IF prev THEN << >> ELSE selected

\* a plausible slip: handleClick without its marqueeJustFinished guard
ClickSelects_NoMarqueeGuard ==
  /\ inlineEdit.kind = "none"
  /\ ~dragMoved
  /\ selectionMode

\* handleClick reaches its selection branch
ClickSelects ==
  /\ inlineEdit.kind = "none"
  /\ ~dragMoved
  /\ ~marqueeJustFinished
  /\ selectionMode

\* The click that follows a mouseup inside the wrapper, on target t: the
\* onClick of a toolbar button (toggleSelectionMode, handleDirectionToggle),
\* then handleClick of the wrapper, then the commit.
Click(t) ==
  /\ Mounted
  /\ pointer.phase = "released"
  /\ inlineEdit.kind = "none"
  /\ t \in (IF ~IsLive(pointer.target) THEN {EMPTY}
            ELSE IF pointer.x = 0 /\ pointer.y = 0 THEN {pointer.target}
            ELSE {pointer.target, EMPTY})
  /\ LET next == nextDirection(currentDirection)
         updatedCode == replaceDirection(mermaidCode, next)
         toggled == t = BTN_DIR /\ supportsDirection /\ DirectionEdits(updatedCode)
         afterButton == IF t = BTN_MODE
                        THEN toggleSelectionMode(selectionMode, selectedElements)
                        ELSE selectedElements
         afterClick ==
           IF ~ClickSelects THEN afterButton
           ELSE IF ClickedId(t) # NoId THEN ToggleSelection(selectedElements, ClickedId(t))
           ELSE IF Len(selectedElements) > 0 THEN << >>
           ELSE afterButton
         called == \/ t = BTN_MODE /\ selectionMode
                   \/ ClickSelects /\ (ClickedId(t) # NoId \/ Len(selectedElements) > 0)
     IN  /\ IF toggled
            THEN /\ handleCodeChange(updatedCode, LayoutChange(currentDirection, next))
                 /\ run' = NoRun
            ELSE UNCHANGED <<srcVars, logVars, rendVars, run>>
         /\ IF called THEN SetSelection(afterClick)
            ELSE UNCHANGED <<selectedElements, marked>>
         /\ UNCHANGED <<op, leaked, hostVars>>
  /\ selectionMode' = IF t = BTN_MODE THEN ~selectionMode ELSE selectionMode
  /\ marqueeJustFinished' = IF ~dragMoved THEN FALSE ELSE marqueeJustFinished
  /\ pointer' = IF t = pointer.target /\ pointer.x = 0 /\ pointer.y = 0 /\ OnNode(t)
                THEN [IdlePointer EXCEPT !.target = t,
                        !.clicks = IF pointer.clicks < 2 THEN pointer.clicks + 1 ELSE 2]
                ELSE IdlePointer
  /\ UNCHANGED <<viewMode, app, fixVars, inlineEdit, marquee, dragging, dragMoved,
                 svg, nodesRef, edgesRef, edgeLabelsRef, renderError, lastNotify>>

\* handleDoubleClick on a g.node or g.edgeLabel, after two clicks on it
DoubleClick ==
  /\ Mounted
  /\ pointer.phase = "idle"
  /\ pointer.inside
  /\ pointer.clicks = 2
  /\ IsLive(pointer.target)
  /\ OnNode(pointer.target)
  /\ inlineEdit.kind = "none"
  /\ LET t == pointer.target
         k == t[3]
     IN  IF t[2] = "node"
         THEN /\ inlineEdit' = IF RawIdOf(t) = << >> THEN inlineEdit
                               ELSE [kind |-> "node", id |-> extractNodeId(RawIdOf(t)),
                                     label |-> svg.nodes[k].label]
              /\ run' = [run EXCEPT !.editing = 0, !.noop = FALSE]
         ELSE /\ inlineEdit' = IF svg.edgeLabels[k].label = << >> THEN inlineEdit
                               ELSE [kind |-> "edge", id |-> svg.edgeLabels[k].label,
                                     label |-> svg.edgeLabels[k].label]
              /\ run' = [run EXCEPT !.editing = k, !.noop = FALSE]
  /\ pointer' = IdlePointer
  /\ UNCHANGED <<op, leaked, hostVars>>
  /\ UNCHANGED <<srcVars, logVars, selectedElements, viewMode, app, fixVars,
                 selectionMode, gestureVars, domVars, rendVars, lastNotify>>

\* a plausible slip: the rename is reported whatever the replacement computed
RenameEdits_Always(newLabel, updatedCode) == newLabel # << >>

\* newLabel && newLabel !== inlineEdit.label, then
\* updatedCode !== mermaidCodeRef.current
RenameEdits(newLabel, updatedCode) ==
  /\ newLabel # << >>
  /\ newLabel # inlineEdit.label
  /\ updatedCode # mermaidCode

\* the run of consecutive confirmed renames after this one
RunAfter(newLabel) ==
  IF /\ run.n > 0
     /\ run.kind = inlineEdit.kind
     /\ IF inlineEdit.kind = "node" THEN run.id = inlineEdit.id ELSE run.idx = run.editing
  THEN [run EXCEPT !.n = run.n + 1, !.last = newLabel]
  ELSE [n |-> 1, kind |-> inlineEdit.kind,
        id |-> IF inlineEdit.kind = "node" THEN inlineEdit.id ELSE << >>,
        idx |-> run.editing, first |-> inlineEdit.label, last |-> newLabel,
        base |-> Len(changes), editing |-> run.editing, noop |-> FALSE]

\* confirmEdit, on Enter or when the input loses the focus, with value typed
ConfirmEdit(value) ==
  /\ Mounted
  /\ inlineEdit.kind # "none"
  /\ LET newLabel == Trim(value)
         updatedCode ==
           IF inlineEdit.kind = "node"
           THEN replaceNodeLabel(mermaidCode, inlineEdit.id, inlineEdit.label, newLabel)
           ELSE replaceEdgeLabel(mermaidCode, inlineEdit.label, newLabel)
     IN  /\ IF RenameEdits(newLabel, updatedCode)
            THEN /\ handleCodeChange(updatedCode,
                                     Rename(inlineEdit.id, inlineEdit.label, newLabel))
                 /\ run' = RunAfter(newLabel)
            ELSE /\ UNCHANGED <<srcVars, logVars, rendVars>>
                 /\ run' = [run EXCEPT !.noop = /\ newLabel # << >>
                                                /\ newLabel # inlineEdit.label]
         /\ UNCHANGED <<op, leaked, hostVars>>
  /\ inlineEdit' = NoEdit
  /\ UNCHANGED <<selectedElements, viewMode, app, fixVars, selectionMode, gestureVars,
                 domVars, pointer, lastNotify>>

\* cancelEdit, on Escape
CancelEdit ==
  /\ Mounted
  /\ inlineEdit.kind # "none"
  /\ inlineEdit' = NoEdit
  /\ UNCHANGED <<op, leaked, hostVars>>
  /\ UNCHANGED <<srcVars, logVars, selectedElements, viewMode, app, fixVars,
                 selectionMode, gestureVars, domVars, rendVars, pointer, lastNotify, run>>

\* sendToAgent(app, changeLog, ...) of sync/syncLayer, which hands the
\* serialized log downstream and may flush it: what may be left of the log
sendToAgent(log) == {log, ChangeLog_clear(log)}

\* handleSendToAgent, the onClick of the SendButton beside the diagram
SendToAgent ==
  /\ Mounted
  /\ pointer.phase = "idle"
  /\ inlineEdit.kind = "none"
  /\ changes' \in sendToAgent(changes)
  /\ changeCount' = 0
  /\ UNCHANGED <<op, leaked, hostVars>>
  /\ UNCHANGED <<srcVars, selectedElements, viewMode, app, fixVars, selectionMode,
                 inlineEdit, gestureVars, domVars, rendVars, pointer, lastNotify, run>>

\* the host contexts explored: each field absent or present, heights above
\* and below DEFAULT_HEIGHT
HostContexts ==
  {NullContext} \cup
  {Context(modes, mode, dims) :
     modes \in {<< >>, <<{"inline"}>>, <<{"inline", "fullscreen"}>>},
     mode \in {<< >>, <<"inline">>, <<"fullscreen">>},
     dims \in {<< >>, Dims(<< >>, << >>), Dims(<<900>>, << >>),
               Dims(<< >>, <<300>>), Dims(<<900>>, <<300>>)}}

Next ==
  \/ SendToAgent
  \/ \E ctx \in HostContexts : Connect(ctx)
  \/ \E ctx \in HostContexts : HostContextChanged(ctx)
  \/ ToggleFullscreen
  \/ EscapeKey
  \/ \E code \in ToolTexts : ToolInput(code)
  \/ \E code \in ToolTexts : ToolInputPartial(code)
  \/ \E code \in EditorTexts : EditorChange(code)
  \/ \E th \in Themes : ThemeChange(th)
  \/ AppConnect
  \/ DebounceTimerFire
  \/ ErrorFixTimerFire
  \/ \E r \in inflight : RenderSettle(r)
  \/ \E mode \in ViewModes : ViewSwitch(mode)
  \/ \E t \in Targets : MouseDown(t)
  \/ \E m \in Moves : MouseMove(m[1], m[2])
  \/ \E shiftKey \in BOOLEAN, hit \in SUBSET Range(MapKeys(nodesRef)) : MouseUp(shiftKey, hit)
  \/ MouseLeave
  \/ MouseEnter
  \/ ReleaseOutside
  \/ \E t \in Targets \cup {pointer.target} : Click(t)
  \/ DoubleClick
  \/ \E value \in InputValues \cup {inlineEdit.label} : ConfirmEdit(value)
  \/ CancelEdit

Spec == Init /\ [][Next]_vars


(***************************************************************************)
(* Parts of the application, each with the handlers its properties are     *)
(* about.                                                                  *)
(***************************************************************************)
\* inline editing and the direction toggle, selection mode off
NextEdit ==
  \/ \E t \in Targets \ {EMPTY, BTN_MODE} : MouseDown(t)
  \/ MouseUp(FALSE, {})
  \/ Click(pointer.target)
  \/ DoubleClick
  \/ \E value \in InputValues \cup {inlineEdit.label} : ConfirmEdit(value)
  \/ CancelEdit
  \/ \E r \in inflight : RenderSettle(r)

SpecEdit == Init /\ [][NextEdit]_vars

\* the sources of new text and of renders, without the pointer
NextRender ==
  \/ \E code \in ToolTexts : ToolInput(code)
  \/ \E code \in EditorTexts : EditorChange(code)
  \/ \E th \in Themes : ThemeChange(th)
  \/ AppConnect
  \/ ErrorFixTimerFire
  \/ \E r \in inflight : RenderSettle(r)
  \/ \E mode \in ViewModes : ViewSwitch(mode)

SpecRender == Init /\ [][NextRender]_vars

\* selection: the pointer's gestures (one move per gesture), the direction
\* toggle, inline renames of the last node, edits in the code editor, the
\* canvas and the split view, and the renders all of these start
NextSelect ==
  \/ \E t \in Targets : MouseDown(t)
  \/ MouseMove(MARQUEE_MIN + 1, MARQUEE_MIN + 1)
  \/ \E shiftKey \in BOOLEAN, hit \in SUBSET Range(MapKeys(nodesRef)) : MouseUp(shiftKey, hit)
  \/ \E t \in Targets \cup {pointer.target} : Click(t)
  \/ (pointer.target = Handle(svg.gen, "node", Len(svg.nodes)) /\ DoubleClick)
  \/ ConfirmEdit(<<"x">>)
  \/ \E code \in EditorTexts : EditorChange(code)
  \/ \E r \in inflight : RenderSettle(r)
  \/ \E mode \in ViewModes \ {"code"} : ViewSwitch(mode)

SpecSelect == Init /\ [][NextSelect]_vars


(***************************************************************************)
(* Properties of inline renames and the direction toggle.                  *)
(***************************************************************************)
\* the last entry of the change log (NoChange when the log is empty)
LastChange == IF Len(changes) = 0 THEN NoChange ELSE changes[Len(changes)]

\* C4: a run of consecutive confirmed inline renames of one element (a node or
\* an edge label), with no other logged edit in between, leaves exactly one
\* entry for it in the change log: the entry added at the start of the run,
\* holding the label before the first rename and the label after the last.
C4_OneEntryPerRenameRun ==
  run.n > 0 =>
    /\ Len(changes) = run.base + 1
    /\ LastChange.type = "rename"
    /\ LastChange.oldLabel = run.first
    /\ LastChange.newLabel = run.last

\* two consecutive renames of one node have been coalesced into one entry
C4_NodeRunCoalesced ==
  /\ run.n = 2
  /\ run.kind = "node"
  /\ Len(changes) = run.base + 1
  /\ LastChange.oldLabel = run.first
  /\ LastChange.newLabel = run.last

\* the step is confirmEdit (the inline edit closes) or a click on the
\* direction button
EditAttempt ==
  \/ inlineEdit.kind # "none" /\ inlineEdit'.kind = "none"
  \/ /\ pointer.phase = "released"
     /\ pointer.target = BTN_DIR
     /\ pointer'.phase = "idle"

\* C5: when a confirmed inline rename or a direction toggle computes the text
\* it started from (the source text after the step is the source text before
\* it), no edit occurs: onCodeChange is not called (nothing of what
\* handleCodeChange writes changes: the error flag, the debounce timer, the
\* renders under way), and the source text, the change log and the displayed
\* change count stay as they were.
C5_NoOpIsNoEdit ==
  [][(EditAttempt /\ mermaidCode' = mermaidCode) =>
       /\ UNCHANGED <<mermaidCode, changes, changeCount>>
       /\ UNCHANGED <<isToolInputError, debounceTimer, currentDirection, rendVars>>]_vars

\* a rename of a node to another label has just computed the current text
\* (the element double-clicked was still showing its label of before the
\* last edit), and the log holds what the edits before it left
C5_Witness ==
  /\ run.noop
  /\ inlineEdit.kind = "none"
  /\ Len(changes) > 0
  /\ changeCount = Len(changes)


(***************************************************************************)
(* Properties of renders.                                                  *)
(***************************************************************************)
\* the step is the settling of render r
Settles(r) == r \in inflight /\ inflight' = inflight \ {r}

\* the source text or the theme changed, or a later invocation was made,
\* while render r was in flight
Outdated(r) == r.code # mermaidCode \/ r.theme # theme \/ r.id # renderCounter

\* C6: the result of a render, success or failure, during which the source
\* text or the theme changed is never applied: the displayed tree, the
\* identity tables, the marks, the error state and the host's pending error
\* stay as they were and onRenderError is not called; every result that is
\* applied is the one of the most recent invocation, made with the current
\* source text and theme.
C6_StaleResultsDiscarded ==
  [][\A r \in inflight :
       Settles(r) =>
         /\ Outdated(r) => UNCHANGED <<domVars, fixVars, lastNotify>>
         /\ (lastNotify' # lastNotify \/ svg' # svg) =>
              /\ r.id = renderCounter
              /\ r.code = mermaidCode
              /\ r.theme = theme
              /\ lastNotify'.id = r.id]_vars

\* the first render has settled after the source text changed, and nothing
\* was ever applied: the container is empty and the host was never notified
C6_Witness ==
  /\ renderCounter >= 2
  /\ mermaidCode # SAMPLE_MERMAID
  /\ \A r \in inflight : r.id # 1
  /\ lastNotify.id = 0
  /\ svg = NoSvg

\* C7: when a render that was not superseded fails, the displayed tree and the
\* three identity tables stay as the last successful render left them, the
\* marks and the selection are unchanged, and the host receives the error
\* message through onRenderError (the pending error of the host holds the
\* message and the text that failed); the callback ends normally.
C7_FailureKeepsLastGoodRender ==
  [][\A r \in inflight :
       (Settles(r) /\ ~Outdated(r) /\ ~MermaidRender(r.code).ok) =>
         /\ UNCHANGED <<svg, nodesRef, edgesRef, edgeLabelsRef, marked, selectedElements>>
         /\ renderError' = <<MermaidRender(r.code).msg>>
         /\ lastNotify' = [id |-> r.id, error |-> <<MermaidRender(r.code).msg>>]
         /\ pendingError' = [set |-> TRUE, message |-> MermaidRender(r.code).msg,
                             code |-> r.code]]_vars

\* the latest render has failed while a selected node was marked in the tree
\* of an earlier render: the tree, its tables and the mark are still there
C7_Witness ==
  /\ renderError # << >>
  /\ lastNotify = [id |-> renderCounter, error |-> renderError]
  /\ svg # NoSvg
  /\ svg.gen < renderCounter
  /\ nodesRef # << >>
  /\ Len(selectedElements) > 0
  /\ marked # {}


(***************************************************************************)
(* Properties of the selection.                                            *)
(***************************************************************************)
\* the handles that the node table and the edge table map from the
\* identifiers of the selection
SelectedHandles ==
  ({MapGet(nodesRef, selectedElements[k]) : k \in DOMAIN selectedElements}
     \cup {MapGet(edgesRef, selectedElements[k]) : k \in DOMAIN selectedElements})
    \ {NoHandle}

\* the step applies the result of a successful render
AppliesRender == \E r \in inflight : Settles(r) /\ svg' # svg

\* C8: after every step, so after every applied successful render and every
\* selection change, the handles carrying data-selected are exactly the
\* handles of the displayed tree that the node and edge tables map from the
\* identifiers of the selection; an applied render leaves the selection as
\* it was, so identifiers absent from the new tables mark nothing and stay
\* selected.
C8_MarksFollowSelection ==
  [][/\ marked' = SelectedHandles'
     /\ \A h \in marked' : h[1] = svg'.gen
     /\ AppliesRender => selectedElements' = selectedElements]_vars

\* two identifiers are selected, the tables of the tree applied last know
\* only one of them, and only its handle is marked
C8_Witness ==
  /\ Len(selectedElements) = 2
  /\ svg.gen = renderCounter
  /\ \E k \in DOMAIN selectedElements :
       /\ MapGet(nodesRef, selectedElements[k]) = NoHandle
       /\ MapGet(edgesRef, selectedElements[k]) = NoHandle
  /\ Cardinality(marked) = 1

\* the step is the click that follows a mouseup
ClickStep == pointer.phase = "released" /\ pointer'.phase = "idle"

\* the step is a mouseup that ends a marquee
MarqueeRelease == marquee.active /\ ~marquee'.active /\ pointer'.phase = "released"

\* the selection s with one identifier added at its end or taken out
ToggledOne(s, t) ==
  \/ \E k \in DOMAIN s : t = [j \in 1..(Len(s) - 1) |-> IF j < k THEN s[j] ELSE s[j + 1]]
  \/ Len(t) = Len(s) + 1 /\ SubSeq(t, 1, Len(s)) = s
       /\ \A k \in DOMAIN s : s[k] # t[Len(t)]

\* What the handlers do to the selection: it changes only in the click that
\* follows a mouseup, by the toggle of one identifier or by being emptied
\* (handleClick found no node or edge under the click, or the click left
\* selection mode), and in the mouseup that ends a marquee; no render that
\* settles, no confirmEdit and no edit in the code editor changes it, and
\* the click on the direction button changes it only when handleClick, which
\* the same click reaches, is not held back by its guards.
SelectionWrittenOnlyByClickAndMarquee ==
  [][/\ selectedElements' # selectedElements =>
          \/ /\ ClickStep
             /\ selectedElements' = << >> \/ ToggledOne(selectedElements, selectedElements')
             /\ selectedElements' = << >> \/ (selectionMode /\ selectionMode')
          \/ MarqueeRelease
     /\ (\E r \in inflight : Settles(r)) => selectedElements' = selectedElements
     /\ (inlineEdit.kind # "none" /\ inlineEdit'.kind = "none") =>
          selectedElements' = selectedElements
     /\ (mermaidCode' # mermaidCode /\ ~ClickStep) => selectedElements' = selectedElements
     /\ (/\ mermaidCode' # mermaidCode
         /\ ClickStep
         /\ dragMoved \/ marqueeJustFinished \/ ~selectionMode) =>
          selectedElements' = selectedElements]_vars

\* C9: the selection is not changed by a render that settles (applied, failed
\* or discarded), nor by a step that edits the source text (a confirmed
\* rename, a direction toggle, an edit in the code editor); it changes only
\* in a click (toggle, empty-area click, leaving selection mode) and in the
\* mouseup that ends a marquee.
C9_SelectionUnchangedByRendersAndEdits ==
  [][/\ selectedElements' # selectedElements => ClickStep \/ MarqueeRelease
     /\ (\E r \in inflight : Settles(r)) => selectedElements' = selectedElements
     /\ mermaidCode' # mermaidCode => selectedElements' = selectedElements]_vars

\* a selection survived the rename of one of its nodes and the render of the
\* new text: the log holds the rename, the tree of the latest render is
\* displayed and the selection is still there
C9_SelectionSurvivedRename ==
  /\ Len(selectedElements) > 0
  /\ Len(changes) > 0
  /\ LastChange.type = "rename"
  /\ svg.gen = renderCounter
  /\ svg.gen > 1
  /\ marked # {}

\* the step is the click of a press and release, without movement, on an
\* empty area of the diagram
PlainEmptyClick ==
  /\ ClickStep
  /\ pointer.target = EMPTY
  /\ pointer.x = 0
  /\ pointer.y = 0

\* C10: whenever the selection is not empty, a plain click (press and release
\* without movement) on an empty area of the diagram, with no node, edge or
\* edge label under the pointer, empties the selection.
C10_EmptyClickClearsSelection ==
  [][(PlainEmptyClick /\ Len(selectedElements) > 0) => selectedElements' = << >>]_vars

\* a selection is there, selection mode is on, and the press and release on
\* an empty area have armed the guard that holds the click back
C10_ClickHeldBack ==
  /\ Len(selectedElements) > 0
  /\ selectionMode
  /\ pointer.phase = "released"
  /\ pointer.target = EMPTY
  /\ pointer.x = 0
  /\ marqueeJustFinished

(***************************************************************************)
(* The diagram family and the selection: the tool delivers texts of        *)
(* another family while nodes are selected.                                *)
(***************************************************************************)
\* the texts the host's tool delivers here: a pie chart and a flowchart
FamilyTexts == { <<"p","i","e">>,
                 <<"g","r","a","p","h"," ","L","R","\n"," "," ","A"," ","-","-",">"," ","B">> }

NextFamily ==
  \/ AppConnect
  \/ \E code \in FamilyTexts : ToolInput(code)
  \/ \E t \in Targets : MouseDown(t)
  \/ MouseUp(FALSE, {})
  \/ Click(pointer.target)
  \/ \E r \in inflight : RenderSettle(r)

SpecFamily == Init /\ [][NextFamily]_vars

\* C11: whenever the classifier gives the new source text another family tag
\* than the previous one, the selection is empty after the step.
\* (InteractiveDiagram's effect on [diagramType] writes scale and pan only,
\* and ontoolinput does not call setSelectedElements.)
C11_FamilySwitchEmptiesSelection ==
  [][detectDiagramType(mermaidCode') # detectDiagramType(mermaidCode)
       => selectedElements' = << >>]_vars

\* a selection made on the flowchart is still there when the pie chart that
\* replaced it has been rendered and shown
C11_SelectionOutlivesFamily ==
  /\ detectDiagramType(mermaidCode) # FLOWCHART
  /\ inflight = {}
  /\ svg.gen = renderCounter
  /\ Len(selectedElements) > 0

(***************************************************************************)
(* Properties of selection mode and of the click toggle.                   *)
(***************************************************************************)
\* the step is a click that switches selection mode (toggleSelectionMode)
ModeToggled == ClickStep /\ selectionMode' # selectionMode

\* C12: a click that leaves selection mode empties the selection; a click
\* that enters selection mode leaves the selection as it was.
C12_ModeExitClearsEntryKeeps ==
  [][ModeToggled => IF selectionMode THEN selectedElements' = << >>
                     ELSE selectedElements' = selectedElements]_vars

\* the click on the selection-mode button is due while the mode is on and a
\* node is selected
C12_LeavingWithSelection ==
  /\ pointer.phase = "released"
  /\ pointer.target = BTN_MODE
  /\ selectionMode
  /\ Len(selectedElements) > 0

\* the click on the selection-mode button is due while the mode is off and a
\* node is selected (the diagram was mounted anew by a view switch)
C12_EnteringWithSelection ==
  /\ pointer.phase = "released"
  /\ pointer.target = BTN_MODE
  /\ ~selectionMode
  /\ Len(selectedElements) > 0

\* the app as it is after its first render of the sample, untouched but for
\* the pointer being pressed and released
FreshApp ==
  /\ mermaidCode = SAMPLE_MERMAID
  /\ svg.gen = 1
  /\ renderCounter = 1
  /\ inflight = {}
  /\ viewMode = "canvas"
  /\ selectedElements = << >>
  /\ marked = {}
  /\ changes = << >>
  /\ ~selectionMode
  /\ inlineEdit.kind = "none"
  /\ ~dragMoved
  /\ ~marqueeJustFinished
  /\ pointer.clicks = 0

\* C13: in the app as first rendered, with no toolbar interaction, the click
\* of a press and release on a node makes the selection exactly that node's
\* identifier and marks the node's element data-selected.
C13_FirstClickSelectsNode ==
  [][(ClickStep /\ FreshApp /\ pointer.target[2] = "node"
        /\ pointer.x = 0 /\ pointer.y = 0)
       => /\ selectedElements' = <<ClickedId(pointer.target)>>
          /\ marked' = {pointer.target}]_vars

\* one click on a node of the first render has been handled and nothing is
\* selected or marked
C13_FirstClickIgnored ==
  /\ svg.gen = 1
  /\ renderCounter = 1
  /\ mermaidCode = SAMPLE_MERMAID
  /\ changes = << >>
  /\ ~selectionMode
  /\ pointer.phase = "idle"
  /\ pointer.target[2] = "node"
  /\ pointer.clicks = 1
  /\ selectedElements = << >>
  /\ marked = {}

\* the pointer's gestures alone, in the canvas and the split view: presses,
\* moves, releases with and without shift, clicks, and the renders
NextPick ==
  \/ \E t \in Targets : MouseDown(t)
  \/ \E mv \in Moves : MouseMove(mv[1], mv[2])
  \/ \E shiftKey \in BOOLEAN, hit \in SUBSET Range(MapKeys(nodesRef)) : MouseUp(shiftKey, hit)
  \/ \E t \in Targets \cup {pointer.target} : Click(t)
  \/ \E r \in inflight : RenderSettle(r)
  \/ \E mode \in ViewModes \ {"code"} : ViewSwitch(mode)

SpecPick == Init /\ [][NextPick]_vars

\* the step is a click, on the element the pointer was pressed on without
\* being moved, that reaches the toggle of handleClick with an identifier
ToggleClick ==
  /\ ClickStep
  /\ ClickSelects
  /\ pointer.x = 0
  /\ pointer.y = 0
  /\ IsLive(pointer.target)
  /\ ClickedId(pointer.target) # NoId

\* the sequence s without its k-th element
DropAt(s, k) == [j \in 1..(Len(s) - 1) |-> IF j < k THEN s[j] ELSE s[j + 1]]

\* C14: a click that reaches the toggle with identifier x appends x to the
\* selection when x was absent and takes out x alone when x was present; the
\* other identifiers keep their order.  (handleClick reads no modifier key of
\* the event: a click step stands for a click with any modifiers held.)
C14_ToggleAddsOrRemovesOne ==
  [][ToggleClick =>
       IF \E k \in DOMAIN selectedElements : selectedElements[k] = ClickedId(pointer.target)
       THEN \E k \in DOMAIN selectedElements :
              /\ selectedElements[k] = ClickedId(pointer.target)
              /\ selectedElements' = DropAt(selectedElements, k)
       ELSE selectedElements' = Append(selectedElements, ClickedId(pointer.target))]_vars

\* a click on a node has just put its identifier behind another one
C14_SecondNodeAppended ==
  /\ selectionMode
  /\ pointer.phase = "idle"
  /\ pointer.clicks = 1
  /\ pointer.target[2] = "node"
  /\ IsLive(pointer.target)
  /\ Len(selectedElements) = 2
  /\ selectedElements[2] = ClickedId(pointer.target)

\* a click on a selected node is due while another node is selected behind it
C14_RemovalDue ==
  /\ pointer.phase = "released"
  /\ ClickSelects
  /\ pointer.x = 0
  /\ pointer.y = 0
  /\ IsLive(pointer.target)
  /\ Len(selectedElements) = 2
  /\ selectedElements[1] = ClickedId(pointer.target)

\* the identifiers a click can resolve to: those of the nodes displayed
ClickableIds == Range(MapKeys(nodesRef))

\* the selection after two clicks in succession that toggle identifier x
ToggledTwice(x) == ToggleSelection(ToggleSelection(selectedElements, x), x)

\* C15 as stated: from every selection the app can hold, toggling an
\* identifier twice in succession gives back the same members in the same
\* insertion order, whether the identifier was absent or present.
C15_ToggleTwiceRestoresOrder ==
  \A x \in ClickableIds : ToggledTwice(x) = selectedElements

\* C15, amended: toggling an identifier twice in succession gives back the
\* same members, each once; the insertion order too when the identifier was
\* absent or was the last one inserted; an identifier that was present
\* elsewhere comes back at the end, the others keeping their order.
C15_ToggleTwiceRestoresMembers ==
  \A x \in ClickableIds :
    /\ Range(ToggledTwice(x)) = Range(selectedElements)
    /\ Len(ToggledTwice(x)) = Len(selectedElements)
    /\ (~(\E k \in DOMAIN selectedElements : selectedElements[k] = x)
          => ToggledTwice(x) = selectedElements)
    /\ ((\E k \in DOMAIN selectedElements : selectedElements[k] = x)
          => ToggledTwice(x) = Append(Without(selectedElements, x), x))

\* two clicks in succession on one node have been handled: the node, taken out
\* by the first, is selected again, behind the node that stayed selected
C15_ReselectedAtEnd ==
  /\ selectionMode
  /\ pointer.phase = "idle"
  /\ pointer.clicks = 2
  /\ pointer.target[2] = "node"
  /\ IsLive(pointer.target)
  /\ Len(selectedElements) = 2
  /\ selectedElements[2] = ClickedId(pointer.target)

(***************************************************************************)
(* Properties of the marquee.                                              *)
(***************************************************************************)
\* the rectangle of the marquee does not exceed the minimum: rect.w > 5 &&
\* rect.h > 5 fails
SmallMarquee ==
  marquee.active /\ ~(marquee.w > MARQUEE_MIN /\ marquee.h > MARQUEE_MIN)

\* the click is due that follows the release of such a marquee (the rectangle
\* spans the pointer's offset from the point of the press)
AfterSmallMarquee ==
  /\ pointer.phase = "released"
  /\ marqueeJustFinished
  /\ ~OnNode(pointer.target)
  /\ ~(Abs(pointer.x) > MARQUEE_MIN /\ Abs(pointer.y) > MARQUEE_MIN)

\* C16 as stated: a marquee whose rectangle is empty or does not exceed the
\* minimum leaves the selection unchanged at the release and in the click
\* that follows the release.
C16_SmallMarqueeChangesNothing ==
  [][((MarqueeRelease /\ SmallMarquee) \/ (ClickStep /\ AfterSmallMarquee))
       => selectedElements' = selectedElements]_vars

\* C16, amended: the same, except for the click that follows a press on the
\* selection-mode button: the press starts a marquee like any press off a node,
\* and the click leaves selection mode and empties the selection.
C16_SmallMarqueeOffModeButton ==
  [][((MarqueeRelease /\ SmallMarquee)
        \/ (ClickStep /\ AfterSmallMarquee /\ selectionMode' = selectionMode))
       => selectedElements' = selectedElements]_vars

\* a marquee that was moved but stayed under the minimum has been released
\* over a selection
C16_SmallMarqueeReleased ==
  /\ AfterSmallMarquee
  /\ ~marquee.active
  /\ pointer.x > 0
  /\ pointer.target = EMPTY
  /\ Len(selectedElements) > 0

\* the identifiers of the nodes of hit, in the order of the node table: what
\* nodesRef.current.forEach pushes
HitIds(hit) == SelectSeq(MapKeys(nodesRef), LAMBDA id : id \in hit)

\* whether no identifier occurs twice in s
NoDuplicates(s) == \A i, j \in DOMAIN s : s[i] = s[j] => i = j

\* C17: for every selection the app can hold and every set of nodes under a
\* marquee above the minimum, the release with shift held passes the
\* existing selection followed by the hit identifiers not yet in it, without
\* duplicates, and the release without shift passes exactly the hit
\* identifiers.
C17_MarqueeMergesOrReplaces ==
  \A hit \in SUBSET ClickableIds :
    /\ MarqueeSelection(HitIds(hit), TRUE)
         = selectedElements
             \o SelectSeq(HitIds(hit),
                          LAMBDA id : \A k \in DOMAIN selectedElements : selectedElements[k] # id)
    /\ NoDuplicates(MarqueeSelection(HitIds(hit), TRUE))
    /\ MarqueeSelection(HitIds(hit), FALSE) = HitIds(hit)

\* a marquee above the minimum has been released with shift held: the node
\* selected before is followed by the node the marquee added, against the
\* order of the node table
C17_MergedBehindExisting ==
  /\ pointer.phase = "released"
  /\ marqueeJustFinished
  /\ Abs(pointer.x) > MARQUEE_MIN
  /\ Abs(pointer.y) > MARQUEE_MIN
  /\ Len(MapKeys(nodesRef)) = 2
  /\ selectedElements = <<MapKeys(nodesRef)[2], MapKeys(nodesRef)[1]>>

\* C18: in every reachable state no identifier occurs twice in the selection.
C18_SelectionHasNoDuplicates == NoDuplicates(selectedElements)

\* two nodes are selected in the tree of a later render, the pointer at rest
C18_TwoSelectedAcrossRender ==
  /\ Len(selectedElements) = 2
  /\ svg.gen > 1
  /\ marked # {}
  /\ pointer.phase = "idle"

(***************************************************************************)
(* The layout direction: texts with and without a declared direction come  *)
(* from the host's tool, and the direction button rewrites them.           *)
(***************************************************************************)
\* "graph TB\nA", "%%c\n flowchart lr\nA", "graph TDx\nA", "pie",
\* "---\ngraph  BT;A", "A\ngraph TD", "\ngraph LR"
DirectionTexts ==
  { <<"A","\n","g","r","a","p","h"," ","T","D">>,
    <<"\n","g","r","a","p","h"," ","L","R">>,
    <<"g","r","a","p","h"," ","T","B","\n","A">>,
    <<"%","%","c","\n"," ","f","l","o","w","c","h","a","r","t"," ","l","r","\n","A">>,
    <<"g","r","a","p","h"," ","T","D","x","\n","A">>,
    <<"p","i","e">>,
    <<"-","-","-","\n","g","r","a","p","h"," "," ","B","T",";","A">> }

NextDirection ==
  \/ AppConnect
  \/ \E code \in DirectionTexts : ToolInput(code)
  \/ \E t \in {BTN_DIR, EMPTY} : MouseDown(t)
  \/ MouseUp(FALSE, {})
  \/ Click(pointer.target)
  \/ \E r \in inflight : RenderSettle(r)

SpecDirection == Init /\ [][NextDirection]_vars

\* C19: for the source text of every reachable state and all directions d, d'
\* of DIRECTIONS, setting d and then d' gives the text that setting d' gives;
\* with d' = d, setting d twice gives the text that setting d once gives.
C19_DirectionSetTwice ==
  \A i, j \in DOMAIN DIRECTIONS :
    replaceDirection(replaceDirection(mermaidCode, DIRECTIONS[i]), DIRECTIONS[j])
      = replaceDirection(mermaidCode, DIRECTIONS[j])

\* the direction button has rewritten the sample twice: TD to LR, LR to RL
C19_SampleToggledTwice ==
  /\ Len(changes) > 0
  /\ LastChange.type = "layout-change"
  /\ LastChange.oldDirection = <<"T","D">>
  /\ LastChange.newDirection = <<"R","L">>
  /\ currentDirection = <<"R","L">>
  /\ mermaidCode = replaceDirection(replaceDirection(SAMPLE_MERMAID, <<"L","R">>), <<"R","L">>)
  /\ mermaidCode # SAMPLE_MERMAID

\* the number of line ends of code before position p
NewlinesBefore(code, p) == Cardinality({k \in 1..(p - 1) : code[k] = "\n"})

\* whether the two characters of code at p spell a direction token
IsTokenAt(code, p) ==
  \E d \in DOMAIN DirectionTokens : UpperStr(SubSeq(code, p, p + 1)) = DirectionTokens[d]

\* whether p is the place of the direction token of the declaration: the
\* first token on the first line that is no comment and no "---"
DeclaredTokenAt(code, p) ==
  /\ IsTokenAt(code, p)
  /\ NewlinesBefore(code, p) = DirectionLine(SplitLines(code), 1) - 1
  /\ \A q \in 1..(p - 1) :
       NewlinesBefore(code, q) = NewlinesBefore(code, p) => ~IsTokenAt(code, q)

\* C20: when the source text of a reachable state declares a direction on its
\* first substantive line, setting a direction d changes the two characters
\* of that token into d and no other character, and the direction read back
\* from the result is d; the sample, set to LR, starts "graph LR" and is
\* otherwise as it was.
C20_OnlyDirectionTokenChanges ==
  /\ parseDirection(mermaidCode) # NoDirection =>
       \A i \in DOMAIN DIRECTIONS :
         /\ \E p \in 1..(Len(mermaidCode) - 1) :
              /\ DeclaredTokenAt(mermaidCode, p)
              /\ replaceDirection(mermaidCode, DIRECTIONS[i])
                   = SubSeq(mermaidCode, 1, p - 1) \o DIRECTIONS[i]
                       \o SubSeq(mermaidCode, p + 2, Len(mermaidCode))
         /\ parseDirection(replaceDirection(mermaidCode, DIRECTIONS[i])) = DIRECTIONS[i]
  /\ replaceDirection(SAMPLE_MERMAID, <<"L","R">>)
       = <<"g","r","a","p","h"," ","L","R">> \o SubSeq(SAMPLE_MERMAID, 9, Len(SAMPLE_MERMAID))

\* the direction button has rewritten the lower-case declaration that stands
\* behind a comment line and a blank: lr to RL, all else as the tool sent it
C20_IndentedDeclarationToggled ==
  /\ mermaidCode = <<"%","%","c","\n"," ","f","l","o","w","c","h","a","r","t"," ","R","L","\n","A">>
  /\ currentDirection = <<"R","L">>
  /\ Len(changes) = 1
  /\ LastChange.type = "layout-change"
  /\ LastChange.oldDirection = <<"L","R">>

\* whether the scan of the direction functions passes over the trimmed line
SkippedLine(trimmed) == StartsAt(trimmed, 1, <<"%","%">>) \/ trimmed = <<"-","-","-">>

\* the index of the first line of lines that the scan does not pass over, 0
\* when there is none
FirstSubstantive(lines) ==
  IF \A k \in DOMAIN lines : SkippedLine(Trim(lines[k])) THEN 0
  ELSE CHOOSE k \in DOMAIN lines :
         /\ ~SkippedLine(Trim(lines[k]))
         /\ \A m \in 1..(k - 1) : SkippedLine(Trim(lines[m]))

\* whether the first substantive line of code declares a direction
DeclaresDirection(code) ==
  /\ FirstSubstantive(SplitLines(code)) # 0
  /\ DirectionTokenAt(Trim(SplitLines(code)[FirstSubstantive(SplitLines(code))])) # 0

RenameTexts ==
  { <<"g","r","a","p","h"," ","T","D","\n","B","A","[","x","]"," ","-","-",">"," ","A","[","y","]">>,
    <<"g","r","a","p","h"," ","T","D","\n","A","{","{","x","}","}"," ","-","-",">"," ","B","(","(","y",")",")">> }
\* what the user types into the inline edit input
RenameValues == { <<"n">>, <<"y">> }

NextRename ==
  \/ AppConnect
  \/ \E code \in RenameTexts : ToolInput(code)
  \/ \E t \in {h \in Targets : h[2] = "node"} : MouseDown(t)
  \/ MouseUp(FALSE, {})
  \/ Click(pointer.target)
  \/ DoubleClick
  \/ \E value \in RenameValues : ConfirmEdit(value)
  \/ \E r \in inflight : RenderSettle(r)

SpecRename == Init /\ [][NextRename]_vars

\* whether code defines node id with the label lab inside the b-th bracket
\* pair: the identifier as a whole word, blanks, the opener, lab, the closer
HasLabelIn(code, id, lab, b) ==
  \E i \in 1..Len(code) :
    /\ StartsAt(code, i, id)
    /\ (i = 1 \/ ~IsWordChar(code[i - 1]))
    /\ StartsAt(code, SkipWs(code, i + Len(id)),
                BRACKET_PAIRS[b][1] \o lab \o BRACKET_PAIRS[b][2])

HasBracketLabel(code, id, lab) ==
  \E b \in DOMAIN BRACKET_PAIRS : HasLabelIn(code, id, lab, b)

\* the identifiers and labels of the texts and of the input
RenameIds == { <<"A">>, <<"B">>, <<"B","A">> }
RenameLabels == { <<"x">>, <<"y">>, <<"n">>, <<"s">>, <<"p">> }

\* C22: for the source text of every reachable state, every node id that has
\* a bracket-delimited label old in it and every label new, renaming old to
\* new and then new to old gives the text back.
C22_RenameRoundTrip ==
  \A id \in RenameIds, old \in RenameLabels, new \in RenameLabels :
    HasBracketLabel(mermaidCode, id, old) =>
      replaceNodeLabel(replaceNodeLabel(mermaidCode, id, old, new), id, new, old)
        = mermaidCode

\* the hexagon of the tool's text has been renamed by an inline edit and the
\* round trip gives the text back
C22_HexagonRenamed ==
  /\ HasLabelIn(mermaidCode, <<"A">>, <<"n">>, 4)
  /\ Len(changes) = 1
  /\ LastChange.type = "rename"
  /\ LastChange.nodeId = <<"A">>
  /\ replaceNodeLabel(replaceNodeLabel(mermaidCode, <<"A">>, <<"n">>, <<"x">>),
                      <<"A">>, <<"x">>, <<"n">>) = mermaidCode

\* the step confirms an inline edit of a node and rewrites the source text
NodeRenameStep ==
  /\ inlineEdit.kind = "node"
  /\ inlineEdit'.kind = "none"
  /\ mermaidCode' # mermaidCode

\* the label a rename step has put into the change log
RenamedTo == changes'[Len(changes')].newLabel

\* C23: when a confirmed inline edit renames a node that has a
\* bracket-delimited label in the source text, the new text defines that node
\* with the new label inside the same bracket pair, compound pairs included,
\* and differs from the old text in that one label only; in the sample,
\* renaming B yields B[new].
C23_RenameRewritesNodeLabel ==
  [][NodeRenameStep =>
       \A b \in DOMAIN BRACKET_PAIRS :
         HasLabelIn(mermaidCode, inlineEdit.id, inlineEdit.label, b) =>
           /\ HasLabelIn(mermaidCode', inlineEdit.id, RenamedTo, b)
           /\ \E i \in 1..Len(mermaidCode) :
                /\ StartsAt(mermaidCode, i, inlineEdit.label)
                /\ mermaidCode' = SubSeq(mermaidCode, 1, i - 1) \o RenamedTo
                     \o SubSeq(mermaidCode, i + Len(inlineEdit.label), Len(mermaidCode))
           /\ (mermaidCode = SAMPLE_MERMAID /\ inlineEdit.id = <<"B">>
                 => HasLabelIn(mermaidCode', <<"B">>, RenamedTo, 12))]_vars

\* node B of the sample has been renamed by an inline edit: B[p] is B[n]
C23_SampleNodeRenamed ==
  /\ mermaidCode = <<"g","r","a","p","h"," ","T","D","\n"," "," ","A","(","[","s","]",")"," ","-","-",">","|","y","|"," ","B","[","n","]">>
  /\ Len(changes) = 1
  /\ LastChange.type = "rename"
  /\ LastChange.nodeId = <<"B">>
  /\ LastChange.oldLabel = <<"p">>

\* C24: a confirmed inline edit of a node leaves the definition and label of
\* every node with another identifier as they were in the source text.
C24_RenameKeepsOtherNodes ==
  [][NodeRenameStep =>
       \A id \in RenameIds \ {inlineEdit.id}, lab \in RenameLabels,
          b \in DOMAIN BRACKET_PAIRS :
         HasLabelIn(mermaidCode, id, lab, b) => HasLabelIn(mermaidCode', id, lab, b)]_vars

\* the double circle B((y)) has been renamed behind the hexagon A{{x}}, which
\* is as the tool sent it
C24_OtherNodeUntouched ==
  /\ HasLabelIn(mermaidCode, <<"A">>, <<"x">>, 4)
  /\ HasLabelIn(mermaidCode, <<"B">>, <<"n">>, 3)
  /\ Len(changes) = 1
  /\ LastChange.type = "rename"
  /\ LastChange.nodeId = <<"B">>


\* ---------------------------------------------------------------------------
\* Inline renames of edge labels on texts that the host's tool delivers
\* ---------------------------------------------------------------------------

\* texts with edge labels: one label twice between pipes, one between dashes
EdgeTexts ==
  { <<"g","r","a","p","h"," ","T","D","\n","A"," ","-","-",">","|","y","|"," ","B","\n","B"," ","-","-",">","|","y","|"," ","C">>,
    <<"g","r","a","p","h"," ","T","D","\n","A"," ","-","-"," ","y"," ","-","-",">"," ","B">> }

NextEdge ==
  \/ AppConnect
  \/ \E code \in EdgeTexts : ToolInput(code)
  \/ \E t \in {h \in Targets : h[2] = "edgeLabel"} : MouseDown(t)
  \/ MouseUp(FALSE, {})
  \/ Click(pointer.target)
  \/ DoubleClick
  \/ \E value \in RenameValues : ConfirmEdit(value)
  \/ \E r \in inflight : RenderSettle(r)

SpecEdge == Init /\ [][NextEdge]_vars

Piped(label) == <<"|">> \o label \o <<"|">>

\* out is text with each |old| read as |new|, from left to right, and every
\* other character as it stands
RECURSIVE PipesRenamed(_, _, _, _, _, _)
PipesRenamed(text, out, old, new, i, j) ==
  IF i > Len(text) THEN j = Len(out) + 1
  ELSE IF StartsAt(text, i, Piped(old))
  THEN /\ StartsAt(out, j, Piped(new))
       /\ PipesRenamed(text, out, old, new, i + Len(old) + 2, j + Len(new) + 2)
  ELSE /\ j <= Len(out)
       /\ out[j] = text[i]
       /\ PipesRenamed(text, out, old, new, i + 1, j + 1)

EdgeLabels == { <<"y">>, <<"n">>, <<"B">> }

ClassifyTexts ==
  { <<"-","-","-","\n","t","\n","-","-","-","\n","%","%","x","\n","g","r","a","p","h"," ","T","D","\n","A"," ","-","-",">"," ","B">>,
    <<"%","%","x","\n","f","l","o","w","c","h","a","r","t"," ","L","R","\n","A"," ","-","-",">"," ","B">>,
    <<"-","-","-","\n","t">>,
    <<"%","%","x">>,
    <<"x">>,
    <<"p","i","e">>,
    <<"F","L","O","W","C","H","A","R","T"," ","T","D","\n","A"," ","-","-",">"," ","B">>,
    <<"f","l","o","w","c","h","a","r","t"," ","T","D","\n","A"," ","-","-",">"," ","B">>,
    <<"G","r","a","p","h"," ","T","D","\n","A"," ","-","-",">"," ","B">>,
    <<"%","%","x","\n","\n","g","r","a","p","h"," ","T","D","\n","A"," ","-","-",">"," ","B">>,
    <<"%","%","x","\n","g","r","a","p","h"," ","T","D","\n","A"," ","-","-",">"," ","B">> }

NextClassify ==
  \/ AppConnect
  \/ \E code \in ClassifyTexts : ToolInput(code)
  \/ \E r \in inflight : RenderSettle(r)

SpecClassify == Init /\ [][NextClassify]_vars

MARKER == <<"-","-","-">>

\* the index of the last line of the front-matter block of lines: 0 without
\* a block, the last line of all when the block is not closed
FrontMatterLast(lines) ==
  IF Trim(lines[1]) # MARKER THEN 0
  ELSE IF \E f \in 2..Len(lines) : Trim(lines[f]) = MARKER
  THEN CHOOSE f \in 2..Len(lines) :
         /\ Trim(lines[f]) = MARKER
         /\ \A g \in 2..(f - 1) : Trim(lines[g]) # MARKER
  ELSE Len(lines)

IsCommentLine(line) == StartsAt(Trim(line), 1, <<"%","%">>)

\* the lines (at most one) that follow the front matter and an unbroken run
\* of comment and directive lines
DeclarationLines(lines) ==
  {i \in (FrontMatterLast(lines) + 1)..Len(lines) :
     /\ ~IsCommentLine(lines[i])
     /\ \A j \in (FrontMatterLast(lines) + 1)..(i - 1) : IsCommentLine(lines[j])}

\* whether the line begins with the keyword as written, a word boundary behind it
HasKeyword(line, kw) ==
  /\ StartsAt(line, 1, kw)
  /\ (Len(kw) + 1 > Len(line) \/ ~IsWordChar(line[Len(kw) + 1]))

\* the same, in any letter case
HasKeywordCI(line, kw) ==
  /\ StartsAtCI(line, 1, kw)
  /\ (Len(kw) + 1 > Len(line) \/ ~IsWordChar(line[Len(kw) + 1]))

\* C26: the classifier passes over a leading front-matter block and the
\* comment and directive lines behind it; when the next line begins with
\* flowchart or with graph the tag is "flowchart"; when that line begins with
\* no family keyword, or no line is left, the tag is "unknown".
C26_ClassifySkipsHeader ==
  LET lines == SplitLines(Trim(mermaidCode))
      tag == detectDiagramType(mermaidCode)
  IN  /\ \A i \in DeclarationLines(lines) :
           /\ (\E g \in DOMAIN GraphKeywords : HasKeyword(Trim(lines[i]), GraphKeywords[g]))
                 => tag = FLOWCHART
           /\ (\A k \in DOMAIN TypeKeywords : ~HasKeywordCI(Trim(lines[i]), TypeKeywords[k]))
                 => tag = UNKNOWN
      /\ DeclarationLines(lines) = {} => tag = UNKNOWN

\* the text with front matter, a comment line and a graph declaration is
\* shown, classified as flowchart, and its render has been handled
C26_FrontMatterGraphShown ==
  /\ mermaidCode = <<"-","-","-","\n","t","\n","-","-","-","\n","%","%","x","\n","g","r","a","p","h"," ","T","D","\n","A"," ","-","-",">"," ","B">>
  /\ detectDiagramType(mermaidCode) = FLOWCHART
  /\ inflight = {}

\* the text whose front matter never closes is shown and classified unknown
C26_OpenFrontMatterShown ==
  /\ mermaidCode = <<"-","-","-","\n","t">>
  /\ detectDiagramType(mermaidCode) = UNKNOWN


\* the index, among the lines of the trimmed text, of the line that holds
\* position p of code
LineOf(code, p) == NewlinesBefore(code, p) - NewlinesBefore(code, SkipWs(code, 1)) + 1

\* whether position p of code is where the line that the classifier reads
\* begins
DeclarationAt(code, p) ==
  /\ p \in SkipWs(code, 1)..Len(code)
  /\ ~IsWs(code[p])
  /\ \A q \in 1..(p - 1) : NewlinesBefore(code, q) = NewlinesBefore(code, p) => IsWs(code[q])
  /\ LineOf(code, p) \in DeclarationLines(SplitLines(Trim(code)))

\* whether a and b are the same text but for the letter case of the family
\* keyword at the head of the line that the classifier reads
SameButKeywordCase(a, b) ==
  /\ Len(a) = Len(b)
  /\ \E p \in 1..Len(a), k \in DOMAIN TypeKeywords :
       /\ DeclarationAt(a, p)
       /\ HasKeywordCI(Sub(a, p, Len(a)), TypeKeywords[k])
       /\ HasKeywordCI(Sub(b, p, Len(b)), TypeKeywords[k])
       /\ \A q \in 1..Len(a) : q \notin p..(p + Len(TypeKeywords[k]) - 1) => a[q] = b[q]

\* C27: a text that differs from the text shown only in the letter case of
\* the family keyword gets the same tag from the classifier, the same answer
\* from isInteractiveType and the same availability of the direction button.
C27_KeywordCaseIgnored ==
  \A other \in ClassifyTexts :
    SameButKeywordCase(mermaidCode, other) =>
      /\ detectDiagramType(other) = detectDiagramType(mermaidCode)
      /\ isInteractiveType(detectDiagramType(other))
            = isInteractiveType(detectDiagramType(mermaidCode))
      /\ (DirectionOf(other) = NoDirection) = (DirectionOf(mermaidCode) = NoDirection)

\* the declaration in capitals is shown, its render has been handled, and no
\* direction button is offered
C27_CapitalKeywordShown ==
  /\ mermaidCode = <<"F","L","O","W","C","H","A","R","T"," ","T","D","\n","A"," ","-","-",">"," ","B">>
  /\ inflight = {}
  /\ ~supportsDirection

\* C28: a blank line put between the front matter or the comment lines and
\* the line that the classifier reads leaves the tag as it is.
C28_BlankLinesIgnored ==
  \A p \in 2..Len(mermaidCode) :
    (DeclarationAt(mermaidCode, p) /\ LineOf(mermaidCode, p) > 1 /\ mermaidCode[p - 1] = "\n") =>
      detectDiagramType(Sub(mermaidCode, 1, p - 1) \o <<"\n">> \o Sub(mermaidCode, p, Len(mermaidCode)))
        = detectDiagramType(mermaidCode)

\* the text with a blank line between its comment line and its graph
\* declaration is shown and classified unknown
C28_BlankLineShown ==
  /\ mermaidCode = <<"%","%","x","\n","\n","g","r","a","p","h"," ","T","D","\n","A"," ","-","-",">"," ","B">>
  /\ detectDiagramType(mermaidCode) = UNKNOWN
  /\ inflight = {}


\* ---------------------------------------------------------------------------
\* Gestures on diagrams of families without structural editing
\* ---------------------------------------------------------------------------

\* a pie chart, and a flowchart that the classifier tags unknown
GateTexts ==
  { <<"p","i","e">>,
    <<"%","%","x","\n","\n","g","r","a","p","h"," ","T","D","\n","A","[","x","]"," ","-","-",">"," ","B">> }

NextGate ==
  \/ AppConnect
  \/ \E code \in GateTexts : ToolInput(code)
  \/ \E t \in {h \in Targets : h = BTN_MODE \/ h[2] = "node"} : MouseDown(t)
  \/ MouseUp(FALSE, {})
  \/ Click(pointer.target)
  \/ DoubleClick
  \/ ConfirmEdit(<<"n">>)
  \/ \E r \in inflight : RenderSettle(r)

SpecGate == Init /\ [][NextGate]_vars

\* the step is a click on the diagram, the mouseup that ends a marquee, or
\* the confirmation of an inline edit
StructuralGesture ==
  \/ ClickStep /\ pointer.target \notin {BTN_MODE, BTN_DIR}
  \/ MarqueeRelease
  \/ inlineEdit.kind # "none" /\ inlineEdit'.kind = "none"

\* C29: while the classifier's tag for the text shown is none that
\* isInteractiveType accepts, no click on the diagram, no marquee and no
\* confirmed inline edit changes the selection or the source text; and the
\* direction button is offered only while the tag is "flowchart".
C29_EditingOnlyForInteractiveTypes ==
  /\ [](supportsDirection => detectDiagramType(mermaidCode) = FLOWCHART)
  /\ [][(~isInteractiveType(detectDiagramType(mermaidCode)) /\ StructuralGesture) =>
          UNCHANGED <<selectedElements, mermaidCode>>]_vars

\* a node of a text tagged unknown has been renamed by an inline edit
C29_UnknownFamilyRenamed ==
  /\ detectDiagramType(mermaidCode) = UNKNOWN
  /\ Len(changes) = 1
  /\ LastChange.type = "rename"
  /\ LastChange.nodeId = <<"A">>
  /\ HasLabelIn(mermaidCode, <<"A">>, <<"n">>, 12)

\* a node of a text tagged unknown has been selected by a click
C29_UnknownFamilySelected ==
  /\ detectDiagramType(mermaidCode) = UNKNOWN
  /\ selectionMode
  /\ selectedElements = << <<"A">> >>
  /\ pointer.phase = "idle"


\* ---------------------------------------------------------------------------
\* What the renderer leaves in document.body
\* ---------------------------------------------------------------------------

NextLeak ==
  \/ \E code \in EditorTexts : EditorChange(code)
  \/ \E mode \in ViewModes : ViewSwitch(mode)
  \/ \E r \in inflight : RenderSettle(r)

\* every promise of mermaid.render settles: its callbacks are run by the
\* event loop without the user doing anything; edits and view switches are
\* the user's and may never come.  The steps that take a render out of
\* inflight are the steps of RenderSettle.
PromiseSettles == \E r \in inflight : inflight' = inflight \ {r}

SpecLeak == Init /\ [][NextLeak]_vars /\ WF_inflight(PromiseSettles)

\* C30: whatever a render attempt left in document.body when it completed,
\* superseded or not, is removed afterwards.
C30_LeaksAreRemoved == leaked ~> ~leaked

\* the code view is shown, no render is under way, more renders could still
\* be started, and document.body holds what a superseded render left
C30_LeakLeftInCodeView ==
  /\ leaked
  /\ viewMode = "code"
  /\ inflight = {}
  /\ renderCounter < MaxRenders


\* ---------------------------------------------------------------------------
\* Renders that follow the changes of the source text
\* ---------------------------------------------------------------------------

\* what the editor can be made to hold: a flowchart, an unfinished flowchart
\* and a text of one blank
FreshTexts == EditorTexts \cup { <<" ">> }

NextFresh ==
  \/ AppConnect
  \/ \E code \in ToolTexts : ToolInput(code)
  \/ \E code \in FreshTexts : EditorChange(code)
  \/ \E mode \in ViewModes : ViewSwitch(mode)
  \/ \E r \in inflight : RenderSettle(r)

SpecFresh == Init /\ [][NextFresh]_vars

\* the step starts a render of the new source text that nothing has cancelled
StartsRenderOfNewText ==
  \E r \in inflight' \ inflight : r.code = mermaidCode' /\ ~r.cancelled

\* every render under way has been superseded: the renderer has answered for
\* the latest invocation
RendererAnswered == \A r \in inflight : r.cancelled

\* the container and the error state show what the renderer makes of code
ShowsOutcomeOf(code) ==
  IF MermaidRender(code).ok
  THEN /\ renderError = << >>
       /\ svg.gen # 0
       /\ svg.nodes = MermaidRender(code).nodes
       /\ svg.edges = MermaidRender(code).edges
       /\ svg.edgeLabels = MermaidRender(code).edgeLabels
  ELSE renderError = <<MermaidRender(code).msg>>

\* C31 as stated: every change of the source text starts a render of the new
\* text, and once the renderer has answered, the tree or the error shown is
\* the outcome for the source text, wherever the diagram is shown.
C31_EveryChangeRendered ==
  /\ [][mermaidCode' # mermaidCode => StartsRenderOfNewText]_vars
  /\ []((RendererAnswered /\ Mounted) => ShowsOutcomeOf(mermaidCode))

\* C31, amended: while a view with the diagram is shown, every change of the
\* source text to a text that is not blank starts a render of the new text,
\* after a failed render as after a successful one; and once the renderer
\* has answered, the tree or the error shown is the outcome for the source
\* text, when that text is not blank.
C31_ChangeRenderedWhileShown ==
  /\ [][(mermaidCode' # mermaidCode /\ Mounted /\ Trim(mermaidCode') # << >>)
          => StartsRenderOfNewText]_vars
  /\ []((RendererAnswered /\ Mounted /\ Trim(mermaidCode) # << >>)
          => ShowsOutcomeOf(mermaidCode))

\* a render has failed (its error was scheduled for the connected app), the
\* finished flowchart was typed after that, and its tree is shown with no error
C31_RenderedAfterFailure ==
  /\ Mounted
  /\ mermaidCode = <<"g","r","a","p","h"," ","T","D","\n"," "," ","A","(","[","s","]",")">>
  /\ errorFixTimer = [pending |-> FALSE, app |-> TRUE]
  /\ pendingError = NoError
  /\ renderError = << >>
  /\ inflight = {}
  /\ svg.gen = renderCounter
  /\ isToolInputError = FALSE


\* ---------------------------------------------------------------------------
\* The change log over a diagram session
\* ---------------------------------------------------------------------------

\* the text of the new diagram session
SessionText == <<"g","r","a","p","h"," ","L","R","\n","A","[","x","]">>

NextSession ==
  \/ AppConnect
  \/ ToolInput(SessionText)
  \/ \E t \in {h \in Targets : h \in {BTN_DIR, BTN_MODE, Handle(svg.gen, "node", 1)}} : MouseDown(t)
  \/ MouseUp(FALSE, {})
  \/ Click(pointer.target)
  \/ DoubleClick
  \/ ConfirmEdit(<<"n">>)
  \/ SendToAgent
  \/ \E r \in inflight : RenderSettle(r)

SpecSession == Init /\ [][NextSession]_vars

\* the step is an inline rename or a direction toggle that changes the text
RecordedEdit == EditAttempt /\ mermaidCode' # mermaidCode

\* C32: from a tool input until the next edit the log is empty and the
\* change count shown is 0; after every recorded edit the change count shown
\* is the number of entries, and the entries before the last stay as they
\* were, whatever the step does to the selection; the log changes in no
\* other step but a send that empties it, and not when a render settles.
C32_LogKeptUntilNewSession ==
  /\ [](isToolInputError => (changes = << >> /\ changeCount = 0))
  /\ [][/\ RecordedEdit =>
            /\ changeCount' = Len(changes')
            /\ Len(changes') >= Len(changes)
            /\ \A i \in 1..(Len(changes) - 1) : changes'[i] = changes[i]
        /\ (changes' # changes /\ ~RecordedEdit) =>
            /\ changes' = << >>
            /\ changeCount' = 0
            /\ isToolInputError' \/ UNCHANGED <<mermaidCode, selectedElements, inflight>>
        /\ (\E r \in inflight : Settles(r)) => changes' = changes]_vars

\* the log holds a rename and a direction change, counted as 2, while a node
\* is selected and every render has been handled
C32_TwoEntriesCounted ==
  /\ Len(changes) = 2
  /\ changeCount = 2
  /\ changes[1].type = "rename"
  /\ changes[2].type = "layout-change"
  /\ Len(selectedElements) = 1
  /\ inflight = {}

\* a tool input has emptied a log of entries
C32_ToolInputAfterEdits ==
  /\ isToolInputError
  /\ changes = << >>
  /\ renderCounter = MaxRenders
  /\ mermaidCode = SessionText
  /\ selectionMode


\* the handles that the table m maps to
MapHandles(m) == {m[k].h : k \in DOMAIN m}

\* the handles of the elements of tree that carry an identifier or a label
AddressableHandles(tree) ==
  {Handle(tree.gen, "node", k) : k \in {j \in DOMAIN tree.nodes : tree.nodes[j].rawId # << >>}}
    \cup {Handle(tree.gen, "edge", k) : k \in DOMAIN tree.edges}
    \cup {Handle(tree.gen, "edgeLabel", k) :
            k \in {j \in DOMAIN tree.edgeLabels : tree.edgeLabels[j].label # << >>}}

\* C33: when the result of a successful render is applied, the three tables
\* hold handles of the new tree only (no entry of the tables of before is
\* left), and the handles marked are those that the new node and edge tables
\* give for the identifiers of the selection.
C33_TablesReplacedBeforeMarks ==
  [][AppliesRender =>
       /\ MapHandles(nodesRef') \cup MapHandles(edgesRef') \cup MapHandles(edgeLabelsRef')
            \subseteq AddressableHandles(svg')
       /\ \A k \in DOMAIN nodesRef' : svg'.nodes[nodesRef'[k].h[3]].rawId # << >>
       /\ Len(nodesRef') <= Len(svg'.nodes)
       /\ marked' = {h \in MapHandles(nodesRef') \cup MapHandles(edgesRef') :
                       \E k \in DOMAIN selectedElements :
                         h \in {MapGet(nodesRef', selectedElements[k]),
                                MapGet(edgesRef', selectedElements[k])}}]_vars

\* the tree of a pie chart has been applied while node A of the flowchart
\* shown before it is selected: the tables are empty and nothing is marked
C33_EmptyTablesAfterFlowchart ==
  /\ mermaidCode = <<"p","i","e">>
  /\ svg.gen = renderCounter
  /\ selectedElements = << <<"A">> >>
  /\ nodesRef = << >>
  /\ edgesRef = << >>
  /\ marked = {}


\* C34: every auto-fix message handed to the app carries a source text that
\* a tool input delivered, never one that the user typed into the editor.
C34_AutoFixOnlyForToolTexts ==
  \A i \in DOMAIN sent : sent[i].code \in ToolTexts /\ sent[i].code \notin EditorTexts

\* the error of the tool's unfinished text has been sent, and that text is
\* still the source text
C34_ToolErrorSent ==
  /\ Len(sent) = 1
  /\ sent[1].code = mermaidCode
  /\ mermaidCode \in ToolTexts
  /\ isToolInputError
  /\ pendingError = NoError


\* two tool texts that both fail to render, with different error keys
ResendTexts == { <<"g","r","a","p","h"," ","T","D","\n"," "," ","B","[">>, 
                 <<"g","r","a","p","h"," ","T","D","\n"," "," ","A","(","[","s">> }

NextResend ==
  \/ AppConnect
  \/ \E code \in ResendTexts : ToolInput(code)
  \/ ErrorFixTimerFire
  \/ \E r \in inflight : RenderSettle(r)

SpecResend == Init /\ [][NextResend]_vars

\* a render started after the first one has succeeded and was applied
SucceededSinceFirst == svg.gen > 1

\* C35: two auto-fix messages for the same error (same message, same first
\* 200 characters of source text) are sent only with a successful render
\* between them: without a success after the first render, the messages sent
\* have pairwise different error keys.
C35_SameErrorSentOnce ==
  \A i, j \in DOMAIN sent :
     (i < j /\ ErrorKey(sent[i]) = ErrorKey(sent[j])) => SucceededSinceFirst

\* the tool's first failing text was reported, then its second, and its first
\* is the source text again
C35_TwoErrorsSent ==
  /\ Len(sent) = 2
  /\ ErrorKey(sent[1]) # ErrorKey(sent[2])
  /\ mermaidCode = sent[1].code
  /\ ~SucceededSinceFirst


\* the error that the failure of render r hands to scheduleErrorAutoFix
ErrorOf(r) ==
  [set |-> TRUE, message |-> MermaidRender(r.code).msg, code |-> r.code]

\* C36: auto-fix is debounced. The one timer is pending only with an error
\* stored, and the stored error is the outcome notified last; a render that
\* fails replaces the stored error by its own and restarts the timer; a render
\* that succeeds drops the stored error and stops the timer, so nothing is
\* sent for it; and a message goes out only when the pending timer fires, with
\* the message and source text of the error stored last.
C36_AutoFixDebounced ==
  /\ [](errorFixTimer.pending => pendingError.set)
  /\ [](pendingError.set => lastNotify.error = <<pendingError.message>>)
  /\ [][/\ \A r \in inflight :
             (Settles(r) /\ ~Superseded(r)) =>
                /\ sent' = sent
                /\ IF MermaidRender(r.code).ok
                   THEN pendingError' = NoError /\ ~errorFixTimer'.pending
                   ELSE pendingError' = ErrorOf(r) /\ errorFixTimer'.pending
        /\ sent' # sent =>
             /\ errorFixTimer.pending
             /\ ~errorFixTimer'.pending
             /\ pendingError.set
             /\ sent' = Append(sent, [message |-> pendingError.message,
                                      code |-> pendingError.code])]_vars

\* the tool's text failed with the app connected, the tool's next text
\* rendered before the timer fired, and nothing was sent
C36_TimerStoppedBySuccess ==
  /\ isToolInputError
  /\ errorFixTimer = [pending |-> FALSE, app |-> TRUE]
  /\ pendingError = NoError
  /\ sent = << >>
  /\ renderCounter = MaxRenders
  /\ svg.gen = renderCounter
  /\ inflight = {}


\* the height of the root container under the host's contexts and the
\* fullscreen requests
NextHost ==
  \/ \E ctx \in HostContexts : Connect(ctx)
  \/ \E ctx \in HostContexts : HostContextChanged(ctx)
  \/ ToggleFullscreen
  \/ EscapeKey
  \/ \E mode \in ViewModes : ViewSwitch(mode)
  \/ \E r \in inflight : RenderSettle(r)

SpecHost == Init /\ [][NextHost]_vars

\* C37: outside fullscreen, with no container dimensions supplied by the
\* host, the root container is DEFAULT_HEIGHT (500) px high; and every step
\* that leaves fullscreen ends with the root container DEFAULT_HEIGHT px
\* high, whatever height the host sent while in fullscreen or with the exit.
C37_DefaultHeightOutsideFullscreen ==
  /\ []((~isFullscreen /\ ~hostSized) => rootHeight = Px(DEFAULT_HEIGHT))
  /\ [][(isFullscreen /\ ~isFullscreen') => rootHeight' = Px(DEFAULT_HEIGHT)]_vars

\* the host has sent a height (900 or 300 px), fullscreen was left, and the
\* root container is 500 px high
C37_HeightResetAfterFullscreen ==
  /\ app
  /\ hostSized
  /\ ~isFullscreen
  /\ ~prevFullscreen
  /\ rootHeight = Px(DEFAULT_HEIGHT)


\* presses, drags past both thresholds, releases and clicks, with the
\* pointer leaving and coming back
NextFlags ==
  \/ \E t \in Targets : MouseDown(t)
  \/ MouseMove(MARQUEE_MIN + 1, MARQUEE_MIN + 1)
  \/ MouseUp(FALSE, {})
  \/ MouseLeave
  \/ MouseEnter
  \/ ReleaseOutside
  \/ \E t \in Targets \cup {pointer.target} : Click(t)
  \/ \E r \in inflight : RenderSettle(r)

SpecFlags == Init /\ [][NextFlags]_vars

\* the step is the click of a press and release on a node of the displayed
\* tree, in selection mode, with no pointer movement in between
StillNodeClick ==
  /\ ClickStep
  /\ selectionMode
  /\ inlineEdit.kind = "none"
  /\ pointer.target[2] = "node"
  /\ IsLive(pointer.target)
  /\ ClickedId(pointer.target) # NoId
  /\ pointer.x = 0
  /\ pointer.y = 0

\* C38: in selection mode every click on a node made without pointer
\* movement between press and release gets past the dragMoved and
\* marqueeJustFinished guards of handleClick and toggles that node in the
\* selection, whatever gestures came before it.
C38_NodeClickAlwaysToggles ==
  [][StillNodeClick =>
       /\ ClickSelects
       /\ selectedElements' = ToggleSelection(selectedElements, ClickedId(pointer.target))]_vars

\* a node was pressed and released without movement in selection mode while
\* marqueeJustFinished was still set
C38_StaleMarqueeFlag ==
  /\ selectionMode
  /\ pointer.phase = "released"
  /\ pointer.target[2] = "node"
  /\ pointer.x = 0
  /\ pointer.y = 0
  /\ ~dragMoved
  /\ marqueeJustFinished


\* C39: whenever the selection is non-empty, selection mode is on, in every
\* state reached through clicks, marquees, mode toggles, renders and view
\* switches.
C39_SelectionOnlyInSelectionMode ==
  selectedElements # << >> => selectionMode

\* the diagram of the split view shows a selection made in the canvas view,
\* with selection mode off
C39_SelectionOutlivesMode ==
  /\ viewMode = "split"
  /\ ~selectionMode
  /\ Len(selectedElements) = 2
  /\ marked # {}
  /\ pointer.phase = "idle"


\* the entry records a change: its "before" value differs from its "after"
RecordsChange(c) ==
  /\ c.type = "rename" => c.oldLabel # c.newLabel
  /\ c.type = "layout-change" => c.oldDirection # c.newDirection

=============================================================================
